---- MODULE Spec2Model ----
(***************************************************************************)
(* A model of the lispish interpreter (github.com/Warashi/lispish):        *)
(* the scanner-based lexer, the recursive-descent parser and the           *)
(* tree-walking evaluator with its environments, closures and builtins.    *)
(***************************************************************************)
EXTENDS Integers, Sequences, FiniteSets, TLC

VARIABLES
    mode,       \* which entry point is being driven: "eval", "arith", "parse"
    exprs,      \* EvalAll: the slice of top-level expressions
    idx,        \* EvalAll: number of loop iterations completed
    heap,       \* every Env allocated so far; Env pointers are indexes, 0 is nil
    result,     \* EvalAll: the variable result
    err,        \* EvalAll: the variable err
    returned,   \* EvalAll: TRUE once the function has returned
    trace,      \* history: one entry per top-level expression evaluated
    calls,      \* history: one entry per closure invocation attempted
    defs,       \* history: one entry per env.Set performed by define
    steps,      \* history: what Eval did, in the order it did it
    args,       \* builtin call: the evaluated argument list
    out,        \* builtin call: the (value, error) pair returned
    src,        \* parser: the input text, a sequence of characters
    p,          \* parser: the Parser (scanner position and curToken)
    parsed,     \* parser: ParseAll's slice exprs
    perr,       \* parser: the error ParseAll returns
    pdone,      \* parser: TRUE once ParseAll has returned
    lx,         \* lexer: the Lexer that NextToken is called on
    toks        \* lexer: the tokens NextToken has returned, in order

vars == <<mode, exprs, idx, heap, result, err, returned, trace, calls, defs,
          steps, args, out, src, p, parsed, perr, pdone, lx, toks>>

evalVars == <<exprs, idx, heap, result, err, returned, trace, calls, defs, steps>>
arithVars == <<args, out>>
parseVars == <<src, p, parsed, perr, pdone>>
lexVars == <<lx, toks>>

---------------------------------------------------------------------------
(* Bounds of the model.                                                    *)

MaxExprs == 3       \* longest program handed to EvalAll
MaxArgs == 3        \* longest argument list handed to a builtin
MaxDepth == 6       \* deepest nesting of Eval calls followed

---------------------------------------------------------------------------
(* int64: eight bytes, least significant first, two's complement.          *)

Int64Bytes == 8

Pow2(k) == 2 ^ k

\* The bytes of a natural number below 2^31.
NatBytes(n) ==
    [k \in 1..Int64Bytes |-> IF k <= 4 THEN (n \div (256 ^ (k - 1))) % 256 ELSE 0]

\* int64(n) for a model integer n.
Int64(n) ==
    IF n >= 0 THEN NatBytes(n)
    ELSE [k \in 1..Int64Bytes |-> 255 - NatBytes((-n) - 1)[k]]

RECURSIVE AddCarry(_, _, _, _)
AddCarry(a, b, k, carry) ==
    IF k > Int64Bytes THEN <<>>
    ELSE LET s == a[k] + b[k] + carry
         IN  <<s % 256>> \o AddCarry(a, b, k + 1, s \div 256)

\* a + b on int64: the carry out of the top byte is dropped.
AddInt64(a, b) == AddCarry(a, b, 1, 0)

RECURSIVE ColumnSum(_, _, _, _)
ColumnSum(a, b, k, j) ==
    IF j > k THEN 0
    ELSE a[j] * b[k + 1 - j] + ColumnSum(a, b, k, j + 1)

RECURSIVE MulCarry(_, _, _, _)
MulCarry(a, b, k, carry) ==
    IF k > Int64Bytes THEN <<>>
    ELSE LET s == ColumnSum(a, b, k, 1) + carry
         IN  <<s % 256>> \o MulCarry(a, b, k + 1, s \div 256)

\* a * b computed in 32 bits and sign-extended, as int32 would do.
MulInt64In32Bits(a, b) ==
    [k \in 1..Int64Bytes |->
        IF k <= 4 THEN MulCarry(a, b, 1, 0)[k]
        ELSE IF MulCarry(a, b, 1, 0)[4] >= 128 THEN 255 ELSE 0]

\* a * b on int64: the product is truncated to the low 64 bits.
MulInt64(a, b) == MulCarry(a, b, 1, 0)

\* TRUE when the int64 lies in -2^31 .. 2^31-1.
FitsInt32(a) ==
    \/ a[4] < 128 /\ \A k \in 5..Int64Bytes : a[k] = 0
    \/ a[4] >= 128 /\ \A k \in 5..Int64Bytes : a[k] = 255

LowNat(a) == a[1] + 256 * a[2] + 65536 * a[3] + 16777216 * (a[4] % 128)

\* The model integer of an int64 in -2^31 .. 2^31-1.
IntOf(a) == IF a[4] < 128 THEN LowNat(a) ELSE (LowNat(a) - 2147483647) - 1

---------------------------------------------------------------------------
(* The integers of mathematics: a sign and a magnitude written in          *)
(* hexadecimal digits, least significant first, as long as the number      *)
(* needs.  int64 and float64 values are read as such integers.             *)

HexDigitsOfInt64 == 2 * Int64Bytes

Max(a, b) == IF a >= b THEN a ELSE b

Digit(x, k) == IF k <= Len(x) THEN x[k] ELSE 0

RECURSIVE MagAddFrom(_, _, _, _)
MagAddFrom(x, y, k, carry) ==
    IF k > Max(Len(x), Len(y)) THEN <<carry>>
    ELSE <<(Digit(x, k) + Digit(y, k) + carry) % 16>>
         \o MagAddFrom(x, y, k + 1, (Digit(x, k) + Digit(y, k) + carry) \div 16)

MagAdd(x, y) == MagAddFrom(x, y, 1, 0)

\* x < y, comparing from digit k downwards
RECURSIVE MagLessFrom(_, _, _)
MagLessFrom(x, y, k) ==
    IF k = 0 THEN FALSE
    ELSE IF Digit(x, k) # Digit(y, k) THEN Digit(x, k) < Digit(y, k)
    ELSE MagLessFrom(x, y, k - 1)

MagLess(x, y) == MagLessFrom(x, y, Max(Len(x), Len(y)))

\* x - y for x >= y
RECURSIVE MagSubFrom(_, _, _, _)
MagSubFrom(x, y, k, borrow) ==
    IF k > Len(x) THEN <<>>
    ELSE <<(16 + Digit(x, k) - Digit(y, k) - borrow) % 16>>
         \o MagSubFrom(x, y, k + 1,
                       IF Digit(x, k) - Digit(y, k) - borrow < 0 THEN 1 ELSE 0)

MagSub(x, y) == MagSubFrom(x, y, 1, 0)

RECURSIVE MagColumn(_, _, _, _)
MagColumn(x, y, k, j) ==
    IF j > k THEN 0
    ELSE Digit(x, j) * Digit(y, k + 1 - j) + MagColumn(x, y, k, j + 1)

RECURSIVE MagMulFrom(_, _, _, _)
MagMulFrom(x, y, k, carry) ==
    IF k > Len(x) + Len(y) THEN <<>>
    ELSE <<(MagColumn(x, y, k, 1) + carry) % 16>>
         \o MagMulFrom(x, y, k + 1, (MagColumn(x, y, k, 1) + carry) \div 16)

MagMul(x, y) == MagMulFrom(x, y, 1, 0)

MagIsZero(x) == \A k \in 1..Len(x) : x[k] = 0

Z(neg, mag) == [neg |-> neg /\ ~MagIsZero(mag), mag |-> mag]

ZAdd(x, y) ==
    IF x.neg = y.neg THEN Z(x.neg, MagAdd(x.mag, y.mag))
    ELSE IF MagLess(x.mag, y.mag) THEN Z(y.neg, MagSub(y.mag, x.mag))
    ELSE Z(x.neg, MagSub(x.mag, y.mag))

ZMul(x, y) == Z(x.neg # y.neg, MagMul(x.mag, y.mag))

\* The sixteen hexadecimal digits of the int64's bit pattern.
BitPattern(a) ==
    [k \in 1..HexDigitsOfInt64 |->
        IF k % 2 = 1 THEN a[(k + 1) \div 2] % 16 ELSE a[k \div 2] \div 16]

\* 2^64 - x for sixteen digits x, and 0 for x = 0: every digit is
\* complemented, and the 1 that is added is carried up through the digits
\* whose lower digits are all zero in x.
TwosComplement(x) ==
    [k \in 1..HexDigitsOfInt64 |->
        (15 - Digit(x, k)
         + (IF \A j \in 1..(k - 1) : Digit(x, j) = 0 THEN 1 ELSE 0)) % 16]

\* The integer an int64 stands for.
ZOfInt64(a) ==
    IF a[Int64Bytes] >= 128 THEN Z(TRUE, TwosComplement(BitPattern(a)))
    ELSE Z(FALSE, BitPattern(a))

\* The digits of z modulo 2^64
Mod2To64(z) ==
    IF z.neg THEN TwosComplement([k \in 1..HexDigitsOfInt64 |-> Digit(z.mag, k)])
    ELSE [k \in 1..HexDigitsOfInt64 |-> Digit(z.mag, k)]

BytesOfDigits(d) == [k \in 1..Int64Bytes |-> d[2 * k - 1] + 16 * d[2 * k]]

\* z reduced modulo 2^64 into -2^63 .. 2^63-1, as an int64
WrapToInt64(z) == BytesOfDigits(Mod2To64(z))

\* TRUE when z lies in -2^63 .. 2^63-1
InInt64Range(z) == ZOfInt64(WrapToInt64(z)).neg = z.neg
                   /\ ~MagLess(ZOfInt64(WrapToInt64(z)).mag, z.mag)
                   /\ ~MagLess(z.mag, ZOfInt64(WrapToInt64(z)).mag)

---------------------------------------------------------------------------
(* float64: a sign, a magnitude and a binary exponent.  The value is       *)
(* mag / 2^e, where e may be negative and mag is odd, or empty with e = 0  *)
(* for the two zeros.  Every operation rounds its exact result to 53       *)
(* significant bits, to nearest with ties to even.  The exponent range of  *)
(* float64 (infinities, subnormals) and NaN are not modelled: sums and     *)
(* products of a few int64 values and short literals stay far inside it.   *)

MantissaBits == 53

\* Bit i of x, bit 0 the least significant.
Bit(x, i) == IF i < 0 THEN 0 ELSE (Digit(x, i \div 4 + 1) \div Pow2(i % 4)) % 2

\* The index of the highest digit of x that is not zero, 0 when x is zero.
TopDigit(x) ==
    IF \A k \in 1..Len(x) : x[k] = 0 THEN 0
    ELSE CHOOSE k \in 1..Len(x) : x[k] # 0 /\ \A j \in (k + 1)..Len(x) : x[j] = 0

\* x without its leading zero digits
Trim(x) == SubSeq(x, 1, TopDigit(x))

BitsOfDigit(d) == IF d >= 8 THEN 4 ELSE IF d >= 4 THEN 3 ELSE IF d >= 2 THEN 2 ELSE d

BitLenTrimmed(x) ==
    IF Len(x) = 0 THEN 0 ELSE 4 * (Len(x) - 1) + BitsOfDigit(x[Len(x)])

\* The number of significant bits of x.
BitLen(x) == BitLenTrimmed(Trim(x))

\* x * 2^s for s >= 0, and x \div 2^(-s) for s < 0
Shift(x, s) ==
    Trim([k \in 1..(Len(x) + (IF s > 0 THEN s \div 4 + 1 ELSE 0)) |->
            Bit(x, 4 * (k - 1) - s) + 2 * Bit(x, 4 * (k - 1) + 1 - s)
            + 4 * Bit(x, 4 * (k - 1) + 2 - s) + 8 * Bit(x, 4 * (k - 1) + 3 - s)])

\* The index of the lowest digit of x # 0 that is not zero.
LowDigit(x) ==
    CHOOSE k \in 1..Len(x) : x[k] # 0 /\ \A j \in 1..(k - 1) : x[j] = 0

ZeroBitsOfDigit(d) ==
    IF d % 2 = 1 THEN 0 ELSE IF d % 4 = 2 THEN 1 ELSE IF d % 8 = 4 THEN 2 ELSE 3

\* The number of zero bits below the lowest one bit of x # 0.
TrailingZeros(x) == 4 * (LowDigit(x) - 1) + ZeroBitsOfDigit(x[LowDigit(x)])

MagOfNatDigits(n) == [k \in 1..8 |-> (n \div (16 ^ (k - 1))) % 16]

\* The magnitude of a natural number below 2^31.
MagOfNat(n) == Trim(MagOfNatDigits(n))

\* The natural number of a magnitude below 2^31.
RECURSIVE NatOfMag(_, _)
NatOfMag(x, k) == IF k > Len(x) THEN 0 ELSE x[k] + 16 * NatOfMag(x, k + 1)

\* The float64 of value mag / 2^e for mag of at most 53 significant bits.
OddPart(neg, mag, e, zeros) ==
    [neg |-> neg, mag |-> Shift(mag, 0 - zeros), e |-> e - zeros]

Float64Value(neg, mag, e) ==
    IF MagIsZero(mag) THEN [neg |-> neg, mag |-> <<>>, e |-> 0]
    ELSE OddPart(neg, mag, e, TrailingZeros(mag))

\* The bits to drop from x to leave 53 significant ones.
Excess(x) == Max(BitLen(x) - MantissaBits, 0)

\* Round to nearest, ties to even: the first dropped bit is set, and a
\* lower bit, the sticky bit or the last kept bit is set as well.
RoundsUp(x, r, sticky) ==
    /\ r > 0
    /\ Bit(x, r - 1) = 1
    /\ (sticky \/ Bit(x, r) = 1 \/ \E i \in 0..(r - 2) : Bit(x, i) = 1)

\* x \div 2^r, rounded
Rounded(x, r, sticky) ==
    IF RoundsUp(x, r, sticky) THEN MagAdd(Shift(x, 0 - r), <<1>>)
    ELSE Shift(x, 0 - r)

\* The float64 nearest to (mag + sticky) / 2^e, where sticky stands for a
\* positive amount below 1 and mag has more than 53 bits when it is set.
RoundFloat64(neg, mag, e, sticky) ==
    Float64Value(neg, Rounded(Trim(mag), Excess(mag), sticky), e - Excess(mag))

\* The float64 n / 2^e for a model integer n.
Dyadic(n, e) ==
    IF n < 0 THEN RoundFloat64(TRUE, MagOfNat(0 - n), e, FALSE)
    ELSE RoundFloat64(FALSE, MagOfNat(n), e, FALSE)

\* The operand of a sum as an integer over the denominator 2^e.
Scaled(x, e) == [neg |-> x.neg, mag |-> Shift(x.mag, e - x.e)]

ExactSum(x, y, e) == ZAdd(Scaled(x, e), Scaled(y, e))

\* The exact sum z / 2^e of x and y, rounded; an exact zero is -0 only when
\* both operands are -0.
RoundSum(x, y, z, e) ==
    IF MagIsZero(z.mag) THEN Float64Value(x.neg /\ y.neg, <<>>, 0)
    ELSE RoundFloat64(z.neg, z.mag, e, FALSE)

\* x + y on float64
AddFloat64(x, y) == RoundSum(x, y, ExactSum(x, y, Max(x.e, y.e)), Max(x.e, y.e))

\* x * y on float64
MulFloat64(x, y) ==
    RoundFloat64(x.neg # y.neg, MagMul(x.mag, y.mag), x.e + y.e, FALSE)

\* float64(v) for v of type int64
Float64OfInt64(a) == RoundFloat64(ZOfInt64(a).neg, ZOfInt64(a).mag, 0, FALSE)

---------------------------------------------------------------------------
(* parser.Expr and the evaluator's values.                                 *)

Nil == [t |-> "nil"]
Integer(n) == [t |-> "Integer", i |-> Int64(n)]
IntegerOf(a) == [t |-> "Integer", i |-> a]
Float(n, e) == [t |-> "Float", f |-> Dyadic(n, e)]
FloatOf(x) == [t |-> "Float", f |-> x]
String(s) == [t |-> "String", str |-> s]
Symbol(s) == [t |-> "Symbol", sym |-> s]
Comment(s) == [t |-> "Comment", text |-> s]
List(es) == [t |-> "List", elems |-> es]
Builtin(name) == [t |-> "Builtin", fn |-> name]
Closure(params, body, env) ==
    [t |-> "Closure", params |-> params, body |-> body, env |-> env]

\* fmt.Errorf(format, a...): the format and its operands, unformatted.
Errorf(format, operands) == [fmt |-> format, a |-> operands]
NoError == [fmt |-> "nil", a |-> <<>>]

\* The %T of an Expr.
TypeName(v) ==
    IF v.t = "nil" THEN String("<nil>")
    ELSE IF v.t \in {"Closure", "Builtin"} THEN String("*evaluator." \o v.t)
    ELSE String("parser." \o v.t)

---------------------------------------------------------------------------
(* Env: a frame is [vars, outer]; the heap holds every frame allocated.    *)

\* make(map[parser.Symbol]parser.Expr)
EmptyVars == <<>>

\* NewEnv(outer): the heap with one more frame; the new Env is Len of it.
NewEnv(h, outer) == Append(h, [vars |-> EmptyVars, outer |-> outer])

\* A Get that prefers the binding of the outermost frame.
RECURSIVE EnvGetOuterFirst(_, _, _)
EnvGetOuterFirst(h, env, sym) ==
    IF h[env].outer # 0 /\ EnvGetOuterFirst(h, h[env].outer, sym).ok
    THEN EnvGetOuterFirst(h, h[env].outer, sym)
    ELSE IF sym \in DOMAIN h[env].vars THEN [val |-> h[env].vars[sym], ok |-> TRUE]
    ELSE [val |-> Nil, ok |-> FALSE]

\* env.Get(sym)
RECURSIVE EnvGet(_, _, _)
EnvGet(h, env, sym) ==
    IF sym \in DOMAIN h[env].vars THEN [val |-> h[env].vars[sym], ok |-> TRUE]
    ELSE IF h[env].outer # 0 THEN EnvGet(h, h[env].outer, sym)
    ELSE [val |-> Nil, ok |-> FALSE]

\* A Set that overwrites the global frame's binding of sym when there is one.
EnvSetPiercing(h, env, sym, val) ==
    LET target == IF sym \in DOMAIN h[1].vars THEN 1 ELSE env
    IN  [h EXCEPT ![target].vars =
            [k \in (DOMAIN @) \cup {sym} |-> IF k = sym THEN val ELSE @[k]]]

\* A Set that also cuts the frame off from its outer frame.
EnvSetDetaching(h, env, sym, val) ==
    [h EXCEPT ![env] =
        [vars |-> [k \in (DOMAIN @.vars) \cup {sym} |-> IF k = sym THEN val ELSE @.vars[k]],
         outer |-> 0]]

\* env.Set(sym, val)
EnvSet(h, env, sym, val) ==
    [h EXCEPT ![env].vars =
        [k \in (DOMAIN @) \cup {sym} |-> IF k = sym THEN val ELSE @[k]]]

---------------------------------------------------------------------------
(* The builtins.                                                           *)

IsNumber(v) == v.t \in {"Integer", "Float"}

\* An addition loop that leaves Integer operands out of the float total.
RECURSIVE AddLoopIntsNotInFloat(_, _, _)
AddLoopIntsNotInFloat(vals, k, acc) ==
    IF k > Len(vals) THEN acc
    ELSE LET v == vals[k]
         IN  IF v.t = "Integer"
             THEN AddLoopIntsNotInFloat(vals, k + 1,
                    [acc EXCEPT !.sumInt = AddInt64(@, v.i)])
             ELSE IF v.t = "Float"
             THEN AddLoopIntsNotInFloat(vals, k + 1,
                    [acc EXCEPT !.isFloat = TRUE,
                                !.sumFloat = AddFloat64(@, v.f)])
             ELSE [acc EXCEPT !.bad = k]

\* The accumulators of builtinAdd after the loop over vals[k..].
RECURSIVE AddLoop(_, _, _)
AddLoop(vals, k, acc) ==
    IF k > Len(vals) THEN acc
    ELSE LET v == vals[k]
         IN  IF v.t = "Integer"
             THEN AddLoop(vals, k + 1,
                    [acc EXCEPT !.sumInt = AddInt64(@, v.i),
                                !.sumFloat = AddFloat64(@, Float64OfInt64(v.i))])
             ELSE IF v.t = "Float"
             THEN AddLoop(vals, k + 1,
                    [acc EXCEPT !.isFloat = TRUE,
                                !.sumFloat = AddFloat64(@, v.f)])
             ELSE [acc EXCEPT !.bad = k]

builtinAdd(vals) ==
    IF Len(vals) = 0 THEN [val |-> Integer(0), err |-> NoError]
    ELSE LET acc == AddLoop(vals, 1,
                      [isFloat |-> FALSE, sumInt |-> Int64(0),
                       sumFloat |-> Dyadic(0, 0), bad |-> 0])
         IN  IF acc.bad # 0
             THEN [val |-> Nil,
                   err |-> Errorf("+: invalid argument type %T",
                                  <<TypeName(vals[acc.bad])>>)]
             ELSE IF acc.isFloat
             THEN [val |-> FloatOf(acc.sumFloat), err |-> NoError]
             ELSE [val |-> IntegerOf(acc.sumInt), err |-> NoError]

\* A multiplication loop that skips operands that are not numbers.
RECURSIVE MulLoopSkipsOthers(_, _, _)
MulLoopSkipsOthers(vals, k, acc) ==
    IF k > Len(vals) THEN acc
    ELSE LET v == vals[k]
         IN  IF v.t = "Integer"
             THEN MulLoopSkipsOthers(vals, k + 1,
                    [acc EXCEPT !.productInt = MulInt64(@, v.i),
                                !.productFloat = MulFloat64(@, Float64OfInt64(v.i))])
             ELSE IF v.t = "Float"
             THEN MulLoopSkipsOthers(vals, k + 1,
                    [acc EXCEPT !.isFloat = TRUE,
                                !.productFloat = MulFloat64(@, v.f)])
             ELSE MulLoopSkipsOthers(vals, k + 1, acc)

\* The accumulators of builtinMul after the loop over vals[k..].
RECURSIVE MulLoop(_, _, _)
MulLoop(vals, k, acc) ==
    IF k > Len(vals) THEN acc
    ELSE LET v == vals[k]
         IN  IF v.t = "Integer"
             THEN MulLoop(vals, k + 1,
                    [acc EXCEPT !.productInt = MulInt64(@, v.i),
                                !.productFloat = MulFloat64(@, Float64OfInt64(v.i))])
             ELSE IF v.t = "Float"
             THEN MulLoop(vals, k + 1,
                    [acc EXCEPT !.isFloat = TRUE,
                                !.productFloat = MulFloat64(@, v.f)])
             ELSE [acc EXCEPT !.bad = k]

builtinMul(vals) ==
    IF Len(vals) = 0 THEN [val |-> Integer(1), err |-> NoError]
    ELSE LET acc == MulLoop(vals, 1,
                      [isFloat |-> FALSE, productInt |-> Int64(1),
                       productFloat |-> Dyadic(1, 0), bad |-> 0])
         IN  IF acc.bad # 0
             THEN [val |-> Nil,
                   err |-> Errorf("*: invalid argument type %T",
                                  <<TypeName(vals[acc.bad])>>)]
             ELSE IF acc.isFloat
             THEN [val |-> FloatOf(acc.productFloat), err |-> NoError]
             ELSE [val |-> IntegerOf(acc.productInt), err |-> NoError]

\* fn.Fn(args) for the two registered builtins.
BuiltinFn(name, vals) ==
    IF name = "+" THEN builtinAdd(vals) ELSE builtinMul(vals)

\* NewGlobalEnv(): the heap holding only the global frame, which is Env 1.
NewGlobalEnv ==
    EnvSet(EnvSet(NewEnv(<<>>, 0), 1, "+", Builtin("+")), 1, "*", Builtin("*"))

---------------------------------------------------------------------------
(* Eval.  The store st = [heap, calls, defs, steps] is threaded through    *)
(* every call; calls, defs and steps are histories of what Eval did.       *)

\* What an Eval call hands back: the value, the error and the store.
Ret(val, e, st) == [val |-> val, err |-> e, st |-> st]

\* The store at the start of an evaluation on heap h.
Store(h, cs, ds, ss) == [heap |-> h, calls |-> cs, defs |-> ds, steps |-> ss]

\* One entry of steps.  ev is "get" (env.Get of symbol x returned val, err),
\* "closure" (a Closure val was made in env), "apply" (the application x is
\* entered), "begin" and "end" (element k of application app is handed to
\* Eval, and Eval returned val, err) or "invoke" (the callable val of
\* application app is reached by the type switch).  app is the index in
\* steps of the "apply" entry of the application, heap the Envs then.
Step(ev, app, k, env, x, val, e, h) ==
    [ev |-> ev, app |-> app, k |-> k, env |-> env, x |-> x, val |-> val,
     err |-> e, heap |-> h]

Log(st, step) == [st EXCEPT !.steps = Append(@, step)]

\* The symbols of a parameter list, in order (lines 100-107, 145-152).
ParamSymbols(list) == [k \in 1..Len(list) |-> list[k].sym]

AllSymbols(list) == \A k \in 1..Len(list) : list[k].t = "Symbol"

\* The body of a closure built from exp (lines 109-114, 153-158).
ClosureBody(exp) ==
    IF Len(exp) = 3 THEN exp[3] ELSE List(SubSeq(exp, 3, Len(exp)))

\* env.Set as performed by define, with its history entry.
DefineSet(st, env, sym, val) ==
    [st EXCEPT !.heap = EnvSet(st.heap, env, sym, val),
               !.defs = Append(@, [env |-> env, sym |-> sym, val |-> val,
                                   before |-> st.heap,
                                   after |-> EnvSet(st.heap, env, sym, val)])]

\* An arity test that lets surplus arguments through.
ArityMismatchTruncating(vals, fn) == Len(vals) < Len(fn.params)

\* len(args) != len(fn.params)
ArityMismatch(vals, fn) == Len(vals) # Len(fn.params)

\* Dynamic scoping: the frame of a call hangs below the caller's Env.
CallFrameOuterDynamic(fn, env) == env

\* The Env that becomes the parent of the frame of a call of fn made from
\* env: newEnv := NewEnv(fn.env).
CallFrameOuter(fn, env) == fn.env

\* A binding loop that sets the parameters in the closure's environment.
RECURSIVE BindParamsInCaptured(_, _, _, _, _)
BindParamsInCaptured(h, newEnv, params, vals, k) ==
    IF k > Len(params) THEN h
    ELSE BindParamsInCaptured(EnvSet(h, h[newEnv].outer, params[k], vals[k]),
                              newEnv, params, vals, k + 1)

\* for i, param := range fn.params { newEnv.Set(param, args[i]) }
RECURSIVE BindParams(_, _, _, _, _)
BindParams(h, newEnv, params, vals, k) ==
    IF k > Len(params) THEN h
    ELSE BindParams(EnvSet(h, newEnv, params[k], vals[k]), newEnv, params, vals, k + 1)

\* A closure that captures a copy of the frame it is made in.
MakeClosureSnapshot(params, body, env, st) ==
    Ret(Closure(params, body, Len(st.heap) + 1), NoError,
        Log([st EXCEPT !.heap = Append(@, st.heap[env])],
            Step("closure", 0, 0, env, body,
                 Closure(params, body, Len(st.heap) + 1), NoError, st.heap)))

\* closure := &Closure{params: params, body: body, env: env}
MakeClosure(params, body, env, st) ==
    Ret(Closure(params, body, env), NoError,
        Log(st, Step("closure", 0, 0, env, body,
                     Closure(params, body, env), NoError, st.heap)))

RECURSIVE Eval(_, _, _, _)
RECURSIVE EvalArgs(_, _, _, _, _, _, _)
RECURSIVE EvalArgsRightToLeft(_, _, _, _, _, _, _)

\* What Eval returned for element k of application app, entered in steps.
EndElement(k, env, app, x, r) ==
    Ret(r.val, r.err, Log(r.st, Step("end", app, k, env, x, r.val, r.err, r.st.heap)))

\* Eval(exp[k], env) for element k of application app.
EvalElement(exp, k, env, app, st, d) ==
    EndElement(k, env, app, exp[k],
               Eval(exp[k], env,
                    Log(st, Step("begin", app, k, env, exp[k], Nil, NoError, st.heap)),
                    d))

\* The rest of an argument loop that runs from the last operand to the
\* first, when operand k evaluated to r.
ArgsBefore(exp, k, env, app, acc, d, r) ==
    IF r.err # NoError THEN [vals |-> acc, err |-> r.err, st |-> r.st]
    ELSE EvalArgsRightToLeft(exp, k + 1, env, app, r.st, <<r.val>> \o acc, d)

\* An argument loop that evaluates the operands from the last to the first:
\* at step k it evaluates operand Len(exp) + 2 - k.
EvalArgsRightToLeft(exp, k, env, app, st, acc, d) ==
    IF k > Len(exp) THEN [vals |-> acc, err |-> NoError, st |-> st]
    ELSE ArgsBefore(exp, k, env, app, acc, d,
                    EvalElement(exp, Len(exp) + 2 - k, env, app, st, d))

\* The rest of the argument loop when operand k evaluated to r.
ArgsAfter(exp, k, env, app, acc, d, r) ==
    IF r.err # NoError THEN [vals |-> acc, err |-> r.err, st |-> r.st]
    ELSE EvalArgs(exp, k + 1, env, app, r.st, Append(acc, r.val), d)

\* for _, arg := range exp[1:] { ... args = append(args, evaluatedArg) }
EvalArgs(exp, k, env, app, st, acc, d) ==
    IF k > Len(exp) THEN [vals |-> acc, err |-> NoError, st |-> st]
    ELSE ArgsAfter(exp, k, env, app, acc, d, EvalElement(exp, k, env, app, st, d))

\* A define that binds the name before the value is known and leaves it
\* bound to nil when the value expression fails.
EvalDefineBindingFirst(exp, env, st, d) ==
    IF Len(exp) < 3 THEN Ret(Nil, Errorf("define: too few arguments", <<>>), st)
    ELSE IF exp[2].t = "List"
    THEN LET list == exp[2].elems
         IN  IF Len(list) = 0
             THEN Ret(Nil, Errorf("define: invalid function definition", <<>>), st)
             ELSE IF list[1].t # "Symbol"
             THEN Ret(Nil, Errorf("define: function name must be a symbol", <<>>), st)
             ELSE IF ~AllSymbols(Tail(list))
             THEN Ret(Nil, Errorf("define: function parameters must be symbols", <<>>), st)
             ELSE LET c == MakeClosure(ParamSymbols(Tail(list)), ClosureBody(exp), env, st)
                  IN  Ret(list[1], NoError, DefineSet(c.st, env, list[1].sym, c.val))
    ELSE IF exp[2].t # "Symbol"
    THEN Ret(Nil, Errorf("define: first argument must be a symbol", <<>>), st)
    ELSE LET r == Eval(exp[3], env, st, d)
         IN  IF r.err # NoError
             THEN Ret(Nil, r.err, DefineSet(r.st, env, exp[2].sym, Nil))
             ELSE Ret(exp[2], NoError, DefineSet(r.st, env, exp[2].sym, r.val))

\* case "define"
EvalDefine(exp, env, st, d) ==
    IF Len(exp) < 3 THEN Ret(Nil, Errorf("define: too few arguments", <<>>), st)
    ELSE IF exp[2].t = "List"
    THEN LET list == exp[2].elems
         IN  IF Len(list) = 0
             THEN Ret(Nil, Errorf("define: invalid function definition", <<>>), st)
             ELSE IF list[1].t # "Symbol"
             THEN Ret(Nil, Errorf("define: function name must be a symbol", <<>>), st)
             ELSE IF ~AllSymbols(Tail(list))
             THEN Ret(Nil, Errorf("define: function parameters must be symbols", <<>>), st)
             ELSE LET c == MakeClosure(ParamSymbols(Tail(list)), ClosureBody(exp), env, st)
                  IN  Ret(list[1], NoError, DefineSet(c.st, env, list[1].sym, c.val))
    ELSE IF exp[2].t # "Symbol"
    THEN Ret(Nil, Errorf("define: first argument must be a symbol", <<>>), st)
    ELSE LET r == Eval(exp[3], env, st, d)
         IN  IF r.err # NoError THEN Ret(Nil, r.err, r.st)
             ELSE Ret(exp[2], NoError, DefineSet(r.st, env, exp[2].sym, r.val))

\* case "lambda"
EvalLambda(exp, env, st) ==
    IF Len(exp) < 3 THEN Ret(Nil, Errorf("lambda: too few arguments", <<>>), st)
    ELSE IF exp[2].t # "List"
    THEN Ret(Nil, Errorf("lambda: first argument must be a list of parameters", <<>>), st)
    ELSE IF ~AllSymbols(exp[2].elems)
    THEN Ret(Nil, Errorf("lambda: parameters must be symbols", <<>>), st)
    ELSE MakeClosure(ParamSymbols(exp[2].elems), ClosureBody(exp), env, st)

\* case *Closure: the invocation of fn on vals from env.
EvalClosure(fn, vals, env, st, d) ==
    IF ArityMismatch(vals, fn)
    THEN LET e == Errorf("expected %d arguments, got %d",
                         <<Integer(Len(fn.params)), Integer(Len(vals))>>)
         IN  Ret(Nil, e,
                 [st EXCEPT !.calls = Append(@,
                    [caller |-> env, fn |-> fn, args |-> vals, frame |-> 0,
                     before |-> st.heap, bound |-> st.heap, after |-> st.heap,
                     val |-> Nil, err |-> e])])
    ELSE LET h1 == NewEnv(st.heap, CallFrameOuter(fn, env))
             newEnv == Len(h1)
             h2 == BindParams(h1, newEnv, fn.params, vals, 1)
             r == Eval(fn.body, newEnv, [st EXCEPT !.heap = h2], d)
         IN  Ret(r.val, r.err,
                 [r.st EXCEPT !.calls = Append(@,
                    [caller |-> env, fn |-> fn, args |-> vals, frame |-> newEnv,
                     before |-> st.heap, bound |-> h2, after |-> r.st.heap,
                     val |-> r.val, err |-> r.err])])

\* A quote that evaluates its operand.
EvalQuoteEvaluating(exp, env, st, d) ==
    IF Len(exp) # 2
    THEN Ret(Nil, Errorf("quote: wrong number of arguments", <<>>), st)
    ELSE Eval(exp[2], env, st, d)

\* case "quote"
EvalQuote(exp, env, st, d) ==
    IF Len(exp) # 2
    THEN Ret(Nil, Errorf("quote: wrong number of arguments", <<>>), st)
    ELSE Ret(exp[2], NoError, st)

\* return fn.Fn(args)
CallBuiltin(b, st) == Ret(b.val, b.err, st)

\* switch fn := op.(type): the call of op on the evaluated arguments.
Invoke(op, vals, env, st, d) ==
    IF op.t = "Builtin" THEN CallBuiltin(BuiltinFn(op.fn, vals), st)
    ELSE IF op.t = "Closure" THEN EvalClosure(op, vals, env, st, d)
    ELSE Ret(Nil, Errorf("not a function: %v", <<op>>), st)

\* The application once the argument loop has returned a.
ApplyTo(op, a, env, app, d) ==
    IF a.err # NoError THEN Ret(Nil, a.err, a.st)
    ELSE Invoke(op, a.vals, env,
                Log(a.st, Step("invoke", app, 0, env, Nil, op, NoError, a.st.heap)), d)

\* An application that rejects a head that is not callable before it
\* evaluates the operands.
ApplyHeadCheckedFirst(exp, env, app, o, d) ==
    IF o.err # NoError THEN Ret(Nil, o.err, o.st)
    ELSE IF o.val.t \notin {"Builtin", "Closure"}
    THEN Ret(Nil, Errorf("not a function: %v", <<o.val>>), o.st)
    ELSE ApplyTo(o.val, EvalArgs(exp, 2, env, app, o.st, <<>>, d), env, app, d)

\* The application once the head has been evaluated to o.
ApplyHead(exp, env, app, o, d) ==
    IF o.err # NoError THEN Ret(Nil, o.err, o.st)
    ELSE ApplyTo(o.val, EvalArgs(exp, 2, env, app, o.st, <<>>, d), env, app, d)

\* The function application at the end of case parser.List; app is the
\* index its "apply" entry gets in steps.
ApplyAt(exp, env, app, st, d) ==
    ApplyHead(exp, env, app,
              EvalElement(exp, 1, env, app,
                          Log(st, Step("apply", app, 0, env, List(exp), Nil, NoError,
                                       st.heap)), d), d)

EvalApply(exp, env, st, d) == ApplyAt(exp, env, Len(st.steps) + 1, st, d)

\* A dispatch that treats quote, define and lambda as ordinary variables
\* wherever the environment binds them.
EvalListShadowable(exp, env, st, d) ==
    IF Len(exp) = 0 THEN Ret(Nil, Errorf("cannot evaluate empty list", <<>>), st)
    ELSE IF exp[1].t = "Symbol" /\ EnvGet(st.heap, env, exp[1].sym).ok
    THEN EvalApply(exp, env, st, d)
    ELSE IF exp[1].t = "Symbol" /\ exp[1].sym = "quote"
    THEN EvalQuote(exp, env, st, d)
    ELSE IF exp[1].t = "Symbol" /\ exp[1].sym = "define"
    THEN EvalDefine(exp, env, st, d)
    ELSE IF exp[1].t = "Symbol" /\ exp[1].sym = "lambda"
    THEN EvalLambda(exp, env, st)
    ELSE EvalApply(exp, env, st, d)

\* case parser.List
EvalList(exp, env, st, d) ==
    IF Len(exp) = 0 THEN Ret(Nil, Errorf("cannot evaluate empty list", <<>>), st)
    ELSE IF exp[1].t = "Symbol" /\ exp[1].sym = "quote"
    THEN EvalQuote(exp, env, st, d)
    ELSE IF exp[1].t = "Symbol" /\ exp[1].sym = "define"
    THEN EvalDefine(exp, env, st, d)
    ELSE IF exp[1].t = "Symbol" /\ exp[1].sym = "lambda"
    THEN EvalLambda(exp, env, st)
    ELSE EvalApply(exp, env, st, d)

\* case parser.Symbol, when env.Get returned g.
EvalSymbol(expr, env, st, g) ==
    IF ~g.ok
    THEN Ret(Nil, Errorf("undefined symbol: %s", <<expr>>),
             Log(st, Step("get", 0, 0, env, expr, Nil,
                          Errorf("undefined symbol: %s", <<expr>>), st.heap)))
    ELSE Ret(g.val, NoError,
             Log(st, Step("get", 0, 0, env, expr, g.val, NoError, st.heap)))

\* Eval(expr, env).  d counts the Eval calls on the stack; beyond MaxDepth
\* the goroutine stack is taken to be exhausted.
Eval(expr, env, st, d) ==
    IF d > MaxDepth THEN Ret(Nil, Errorf("stack overflow", <<>>), st)
    ELSE IF expr.t \in {"Integer", "Float", "String"} THEN Ret(expr, NoError, st)
    ELSE IF expr.t = "Symbol"
    THEN EvalSymbol(expr, env, st, EnvGet(st.heap, env, expr.sym))
    ELSE IF expr.t = "List" THEN EvalList(expr.elems, env, st, d + 1)
    ELSE IF expr.t = "Comment" THEN Ret(expr, NoError, st)
    ELSE Ret(Nil, Errorf("cannot evaluate expression: %v", <<expr>>), st)

---------------------------------------------------------------------------
(* The scanner-based lexer (lexer.NewLexer).  The input is a sequence of   *)
(* one-character strings; a position is the index of the scanner's current *)
(* character.  text/scanner is modelled for inputs without backslashes,    *)
(* underscores in numbers, radix prefixes and exponents.                   *)

EOFChar == "EOF"

\* The scanner's current character at position pos.
Ch(text, pos) == IF pos > Len(text) THEN EOFChar ELSE text[pos]

\* The ASCII letters and the decimal digits.
Letters ==
    {"a", "b", "c", "d", "e", "f", "g", "h", "i", "j", "k", "l", "m",
     "n", "o", "p", "q", "r", "s", "t", "u", "v", "w", "x", "y", "z",
     "A", "B", "C", "D", "E", "F", "G", "H", "I", "J", "K", "L", "M",
     "N", "O", "P", "Q", "R", "S", "T", "U", "V", "W", "X", "Y", "Z"}
Digits == {"0", "1", "2", "3", "4", "5", "6", "7", "8", "9"}

\* A character that is not ASCII is written by its code point.  The letters
\* and the digits of unicode.IsLetter and unicode.IsDigit that the texts of
\* the model are made of: the ASCII ones, U+00E9 (e acute), U+03BB (lambda),
\* U+3042 (hiragana a), U+0663 (Arabic-Indic three), U+FF13 (fullwidth 3).
UnicodeLetters == Letters \cup {"U+00E9", "U+03BB", "U+3042"}
UnicodeDigits == Digits \cup {"U+0663", "U+FF13"}

IdentPunctuation ==
    {"!", "$", "%", "&", "*", "+", "-", "/", ":", "<", "=", ">", "?", "^", "_", "~"}

\* s.IsIdentRune as set by NewLexer
IsIdentRune(ch, i) ==
    \/ ch = "#"
    \/ ch \in IdentPunctuation
    \/ i > 0 /\ ch \in UnicodeDigits
    \/ ch \in UnicodeLetters

\* scanner.GoWhitespace &^ (1 << '\n'), and the whitespace set of a comment
LexerWhitespace == {" ", "\t", "\r"}
NoWhitespace == {}

RECURSIVE SkipWhitespace(_, _, _)
SkipWhitespace(text, pos, ws) ==
    IF Ch(text, pos) \in ws THEN SkipWhitespace(text, pos + 1, ws) ELSE pos

\* scanIdentifier: the position after the identifier.
RECURSIVE IdentEnd(_, _, _)
IdentEnd(text, pos, i) ==
    IF IsIdentRune(Ch(text, pos), i) THEN IdentEnd(text, pos + 1, i + 1) ELSE pos

\* digits: the position after a run of decimal digits.
RECURSIVE DigitsEnd(_, _)
DigitsEnd(text, pos) ==
    IF Ch(text, pos) \in Digits THEN DigitsEnd(text, pos + 1) ELSE pos

\* scanString: the position of the closing quote, or of the newline or the
\* end of input that ends an unterminated literal.
RECURSIVE StringEnd(_, _)
StringEnd(text, pos) ==
    IF Ch(text, pos) \in {"\"", "\n", EOFChar} THEN pos ELSE StringEnd(text, pos + 1)

Min(a, b) == IF a <= b THEN a ELSE b

ScanResult(tok, text, from, to) ==
    [tok |-> tok, text |-> SubSeq(text, from, to - 1), pos |-> to]

\* scanNumber from the first digit at pos (the token text starts at from).
ScanNumber(text, from, pos, seenDot) ==
    IF seenDot THEN ScanResult("Float", text, from, DigitsEnd(text, pos))
    ELSE LET d == DigitsEnd(text, pos)
         IN  IF Ch(text, d) = "."
             THEN ScanResult("Float", text, from, DigitsEnd(text, d + 1))
             ELSE ScanResult("Int", text, from, d)

\* The part of s.Scan() after the whitespace is skipped: the token that
\* starts at start with the character ch.
ScanToken(text, start, ch) ==
    IF IsIdentRune(ch, 0) THEN ScanResult("Ident", text, start, IdentEnd(text, start + 1, 1))
    ELSE IF ch \in Digits THEN ScanNumber(text, start, start, FALSE)
    ELSE IF ch = EOFChar THEN ScanResult("EOF", text, start, start)
    ELSE IF ch = "\""
    THEN ScanResult("String", text, start,
                    Min(StringEnd(text, start + 1), Len(text)) + 1)
    ELSE IF ch = "." /\ Ch(text, start + 1) \in Digits
    THEN ScanNumber(text, start, start + 1, TRUE)
    ELSE ScanResult("Char", text, start, start + 1)

\* The token that starts at start.
ScanFrom(text, start) == ScanToken(text, start, Ch(text, start))

\* s.Scan() with the whitespace set ws.  tok is "EOF", "Ident", "Int",
\* "Float", "String", or "Char" for a token that is its own character.
Scan(text, pos, ws) == ScanFrom(text, SkipWhitespace(text, pos, ws))

\* strconv.Unquote with the fallback of NextToken: the text between the
\* quotes, or the raw text when it is not a terminated one-line literal.
Unquoted(lit) ==
    IF /\ Len(lit) >= 2
       /\ lit[Len(lit)] = "\""
       /\ \A k \in 2..(Len(lit) - 1) : lit[k] \notin {"\"", "\n"}
    THEN SubSeq(lit, 2, Len(lit) - 1)
    ELSE lit

Token(type, literal) == [Type |-> type, Literal |-> literal]

\* The loop that collects a comment: the position after the newline or at
\* the end of input, and the text collected before it.
RECURSIVE ScanComment(_, _, _)

\* One turn of that loop, on the token sc that Scan returned.
ScanCommentToken(text, sc, commentText) ==
    IF sc.tok = "EOF" \/ (sc.tok = "Char" /\ sc.text = <<"\n">>)
    THEN [tok |-> Token("TokenComment", commentText), pos |-> sc.pos]
    ELSE ScanComment(text, sc.pos, commentText \o sc.text)

ScanComment(text, pos, commentText) ==
    ScanCommentToken(text, Scan(text, pos, NoWhitespace), commentText)

\* l.NextToken(): the token and the scanner position after it.
RECURSIVE NextToken(_, _)

\* The switch of l.NextToken() on the token sc that Scan returned.
NextTokenSwitch(text, sc) ==
    IF sc.tok = "EOF" THEN [tok |-> Token("TokenEOF", <<>>), pos |-> sc.pos]
    ELSE IF sc.text = <<";">> THEN ScanComment(text, sc.pos, <<";">>)
    ELSE IF sc.tok = "Char" /\ sc.text = <<"(">>
    THEN [tok |-> Token("TokenLParen", sc.text), pos |-> sc.pos]
    ELSE IF sc.tok = "Char" /\ sc.text = <<")">>
    THEN [tok |-> Token("TokenRParen", sc.text), pos |-> sc.pos]
    ELSE IF sc.tok = "Char" /\ sc.text = <<"'">>
    THEN [tok |-> Token("TokenQuote", sc.text), pos |-> sc.pos]
    ELSE IF sc.tok = "String"
    THEN [tok |-> Token("TokenString", Unquoted(sc.text)), pos |-> sc.pos]
    ELSE IF sc.tok = "Int"
    THEN [tok |-> Token("TokenInteger", sc.text), pos |-> sc.pos]
    ELSE IF sc.tok = "Float"
    THEN [tok |-> Token("TokenFloat", sc.text), pos |-> sc.pos]
    ELSE IF sc.tok = "Ident"
    THEN [tok |-> Token("TokenIdentifier", sc.text), pos |-> sc.pos]
    ELSE IF sc.text[1] \in {"\n", "\r", "\t", " "}
    THEN NextToken(text, sc.pos)
    ELSE [tok |-> Token("TokenIdentifier", sc.text), pos |-> sc.pos]

NextToken(text, pos) == NextTokenSwitch(text, Scan(text, pos, LexerWhitespace))

---------------------------------------------------------------------------
(* The scanner-based lexer that discards comments (the NewLexer whose      *)
(* tokens include TokenNumber).  Its NewLexer leaves s.Whitespace as       *)
(* s.Init sets it, and its IsIdentRune is the one above.                   *)

\* scanner.GoWhitespace
GoWhitespace == {"\t", "\n", "\r", " "}

\* for tok != '\n' && tok != scanner.EOF { tok = l.s.Scan() }: the scanner
\* position after the loop, entered with the token sc.
RECURSIVE DiscardComment(_, _)
DiscardComment(text, sc) ==
    IF (sc.tok = "Char" /\ sc.text = <<"\n">>) \/ sc.tok = "EOF" THEN sc.pos
    ELSE DiscardComment(text, Scan(text, sc.pos, GoWhitespace))

\* l.NextToken() of this lexer: the token and the scanner position after it.
RECURSIVE NextTokenDiscarding(_, _)

\* The body of its loop on the token sc that Scan returned.
NextTokenDiscardingSwitch(text, sc) ==
    IF sc.tok = "EOF" THEN [tok |-> Token("TokenEOF", <<>>), pos |-> sc.pos]
    ELSE IF sc.tok = "Char" /\ sc.text = <<";">>
    THEN NextTokenDiscarding(text, DiscardComment(text, sc))
    ELSE IF sc.tok = "Char" /\ sc.text = <<"(">>
    THEN [tok |-> Token("TokenLParen", sc.text), pos |-> sc.pos]
    ELSE IF sc.tok = "Char" /\ sc.text = <<")">>
    THEN [tok |-> Token("TokenRParen", sc.text), pos |-> sc.pos]
    ELSE IF sc.tok = "Char" /\ sc.text = <<"'">>
    THEN [tok |-> Token("TokenQuote", sc.text), pos |-> sc.pos]
    ELSE IF sc.tok = "String"
    THEN [tok |-> Token("TokenString", Unquoted(sc.text)), pos |-> sc.pos]
    ELSE IF sc.tok \in {"Int", "Float"}
    THEN [tok |-> Token("TokenNumber", sc.text), pos |-> sc.pos]
    ELSE IF sc.tok = "Ident"
    THEN [tok |-> Token("TokenIdentifier", sc.text), pos |-> sc.pos]
    ELSE IF sc.text[1] \in {"\n", "\r", "\t", " "}
    THEN NextTokenDiscarding(text, sc.pos)
    ELSE [tok |-> Token("TokenIdentifier", sc.text), pos |-> sc.pos]

NextTokenDiscarding(text, pos) ==
    NextTokenDiscardingSwitch(text, Scan(text, pos, GoWhitespace))

---------------------------------------------------------------------------
(* The parser.  A Parser is [pos, curToken]: the scanner position of its   *)
(* lexer and the current token.                                            *)

\* The Go string made of the characters of a literal.
RECURSIVE Join(_)
Join(lit) == IF Len(lit) = 0 THEN "" ELSE Head(lit) \o Join(Tail(lit))

DigitValue ==
    [c \in Digits |->
        CASE c = "0" -> 0 [] c = "1" -> 1 [] c = "2" -> 2 [] c = "3" -> 3
          [] c = "4" -> 4 [] c = "5" -> 5 [] c = "6" -> 6 [] c = "7" -> 7
          [] c = "8" -> 8 [] c = "9" -> 9]

\* strconv.ParseInt(lit, 10, 64) of a run of digits, short of the range
\* error (the literals of the model have fewer than 19 digits).
RECURSIVE ParseInt(_, _, _)
ParseInt(lit, k, acc) ==
    IF k > Len(lit) THEN acc
    ELSE ParseInt(lit, k + 1,
                  AddInt64(MulInt64(acc, Int64(10)), Int64(DigitValue[lit[k]])))

\* The digits of a float literal as a natural number, and the count of
\* digits after the point.
RECURSIVE DigitsNat(_, _, _)
DigitsNat(lit, k, acc) ==
    IF k > Len(lit) THEN acc
    ELSE IF lit[k] = "." THEN DigitsNat(lit, k + 1, acc)
    ELSE DigitsNat(lit, k + 1, 10 * acc + DigitValue[lit[k]])

FractionDigits(lit) ==
    IF \E k \in 1..Len(lit) : lit[k] = "."
    THEN Len(lit) - (CHOOSE k \in 1..Len(lit) : lit[k] = ".")
    ELSE 0

\* The most hexadecimal digits h with 16^h * d below 2^31.
ChunkDigits(d) == CHOOSE h \in 1..7 : 16 ^ h <= 2147483647 \div d
                                      /\ (h = 7 \/ 16 ^ (h + 1) > 2147483647 \div d)

\* The h hexadecimal digits of c, least significant first.
HexChunk(c, h) == [j \in 1..h |-> (c \div (16 ^ (j - 1))) % 16]

\* The chunk c of the quotient put on top of its lower chunks.
PutChunk(lower, c, h) ==
    [q |-> lower.q \o HexChunk(c, h), sticky |-> lower.sticky]

\* Long division of the fraction r / d in radix 16^h: m chunks of h
\* digits each, the first chunk the most significant, and whether a
\* remainder is left.
RECURSIVE FractionChunks(_, _, _, _)
FractionChunks(r, d, h, m) ==
    IF m = 0 THEN [q |-> <<>>, sticky |-> r # 0]
    ELSE PutChunk(FractionChunks((r * (16 ^ h)) % d, d, h, m - 1),
                  (r * (16 ^ h)) \div d, h)

\* The chunks needed for 56 significant bits of N / d, d = 10^k.
ChunkCount(k, h) == ((56 + 4 * k) \div (4 * h)) + 1

\* N * 16^(h * m) \div d, the integer part of N / d on top of the m chunks
\* frac of its fraction, rounded over 16^(h * m).
Scaled10(N, d, h, m, frac) ==
    RoundFloat64(FALSE, frac.q \o MagOfNatDigits(N \div d), 4 * h * m, frac.sticky)

\* The float64 nearest to N / 10^k, for N below 2^31 and k <= 8.
NearestFloat64(N, k, h) ==
    Scaled10(N, 10 ^ k, h, ChunkCount(k, h),
             FractionChunks(N % (10 ^ k), 10 ^ k, h, ChunkCount(k, h)))

\* strconv.ParseFloat(lit, 64) of digits with a point (the literals of the
\* model have fewer than ten digits).
ParseFloat(lit) ==
    NearestFloat64(DigitsNat(lit, 1, 0), FractionDigits(lit),
                   ChunkDigits(10 ^ FractionDigits(lit)))

IoEOF == Errorf("EOF", <<>>)

\* p.nextToken(): the next token that is not a comment.
RECURSIVE ParserNextToken(_, _)

\* The test of that loop on the token r that NextToken returned.
SkipComment(text, r) ==
    IF r.tok.Type = "TokenComment" THEN ParserNextToken(text, r.pos)
    ELSE [pos |-> r.pos, curToken |-> r.tok]

ParserNextToken(text, pos) == SkipComment(text, NextToken(text, pos))

\* NewParser(r)
NewParser(text) == ParserNextToken(text, 1)

\* What a parse function hands back: the expression, the error, the Parser.
Parsed(expr, e, ps) == [expr |-> expr, err |-> e, p |-> ps]

\* A parseQuote that names the form by the quote character.
QuoteListTick(expr) == List(<<Symbol("'"), expr>>)

\* (quote <expr>): List{Symbol("quote"), expr}
QuoteListOf(expr) == List(<<Symbol("quote"), expr>>)

RECURSIVE ParseExpr(_, _)
RECURSIVE ParseListLoop(_, _, _)

\* The loop of parseList, after '(' has been consumed.
ParseListLoop(text, ps, list) ==
    IF ps.curToken.Type = "TokenRParen"
    THEN Parsed(List(list), NoError, ParserNextToken(text, ps.pos))
    ELSE IF ps.curToken.Type = "TokenEOF"
    THEN Parsed(Nil, Errorf("unexpected EOF while reading list", <<>>), ps)
    ELSE LET r == ParseExpr(text, ps)
         IN  IF r.err # NoError THEN Parsed(Nil, r.err, r.p)
             ELSE ParseListLoop(text, r.p, Append(list, r.expr))

\* p.parseList()
ParseList(text, ps) == ParseListLoop(text, ParserNextToken(text, ps.pos), <<>>)

\* What parseQuote returns when ParseExpr returned r.
QuoteOf(r) ==
    IF r.err # NoError THEN Parsed(Nil, r.err, r.p)
    ELSE Parsed(QuoteListOf(r.expr), NoError, r.p)

\* p.parseQuote()
ParseQuote(text, ps) == QuoteOf(ParseExpr(text, ParserNextToken(text, ps.pos)))

\* p.ParseExpr()
ParseExpr(text, ps) ==
    LET tok == ps.curToken
        advanced == ParserNextToken(text, ps.pos)
    IN  IF tok.Type = "TokenEOF" THEN Parsed(Nil, IoEOF, ps)
        ELSE IF tok.Type = "TokenInteger"
        THEN Parsed(IntegerOf(ParseInt(tok.Literal, 1, Int64(0))), NoError, advanced)
        ELSE IF tok.Type = "TokenFloat"
        THEN Parsed(FloatOf(ParseFloat(tok.Literal)), NoError, advanced)
        ELSE IF tok.Type = "TokenString"
        THEN Parsed(String(Join(tok.Literal)), NoError, advanced)
        ELSE IF tok.Type = "TokenIdentifier"
        THEN Parsed(Symbol(Join(tok.Literal)), NoError, advanced)
        ELSE IF tok.Type = "TokenLParen" THEN ParseList(text, ps)
        ELSE IF tok.Type = "TokenQuote" THEN ParseQuote(text, ps)
        ELSE IF tok.Type = "TokenRParen"
        THEN Parsed(Nil, Errorf("unexpected ')'", <<>>), ps)
        ELSE Parsed(Nil, Errorf("unexpected token: %v", <<tok>>), ps)

---------------------------------------------------------------------------
(* The hand-written lexer (lexer.New).  A Lexer is [input, pos, readPos,  *)
(* ch, pending] with the byte offsets of the code; the byte 0 is NUL.      *)

ILLEGAL == "ILLEGAL"
EOF == "EOF"
LPAREN == "("
RPAREN == ")"
DOT == "."
QUOTE == "QUOTE"
NUMBER == "NUMBER"
\* the token types STRING and BOOLEAN (the bare names are taken by TLA+)
STRING_TOKEN == "STRING"
SYMBOL == "SYMBOL"
BOOLEAN_TOKEN == "BOOLEAN"

NUL == "NUL"

\* A byte of 128 or more is written <XX>, with its value in hexadecimal.
HexDigit ==
    <<"0", "1", "2", "3", "4", "5", "6", "7", "8", "9", "A", "B", "C", "D", "E", "F">>
ByteName(v) == "<" \o HexDigit[(v \div 16) + 1] \o HexDigit[(v % 16) + 1] \o ">"
HighBytes == {ByteName(v) : v \in 128..255}
ByteValue(ch) == CHOOSE v \in 128..255 : ByteName(v) = ch

\* string(l.ch) for the byte l.ch: the UTF-8 encoding of the code point
\* whose number is the byte's value, two bytes for a byte of 128 or more.
StringOfByte(ch) ==
    IF ch \in HighBytes
    THEN <<ByteName(192 + (ByteValue(ch) \div 64)), ByteName(128 + (ByteValue(ch) % 64))>>
    ELSE <<ch>>

\* l.input[from:to]
Slice(input, from, to) == SubSeq(input, from + 1, to)

\* l.readChar()
readChar(l) ==
    [l EXCEPT !.ch = IF l.readPos >= Len(l.input) THEN NUL ELSE l.input[l.readPos + 1],
              !.pos = l.readPos,
              !.readPos = l.readPos + 1]

\* l.peekChar()
peekChar(l) == IF l.readPos >= Len(l.input) THEN NUL ELSE l.input[l.readPos + 1]

\* New(input)
New(input) ==
    readChar([input |-> input, pos |-> 0, readPos |-> 0, ch |-> NUL, pending |-> <<>>])

isDigit(ch) == ch \in Digits
isLetter(ch) == ch \in Letters
isAllowedSymbolChar(ch) ==
    ch \in {"!", "$", "%", "&", "*", "+", "-", ".", "/", ":", "<", "=", ">", "?",
            "@", "^", "_", "~", "#"}
isSymbolChar(ch) == isLetter(ch) \/ isDigit(ch) \/ isAllowedSymbolChar(ch)
isInitialSymbol(ch) == isLetter(ch) \/ isAllowedSymbolChar(ch)

\* l.skipWhitespace()
RECURSIVE skipWhitespace(_)
skipWhitespace(l) ==
    IF l.ch \in {" ", "\t", "\n", "\r"} THEN skipWhitespace(readChar(l)) ELSE l

\* l.skipComment()
RECURSIVE skipComment(_)
skipComment(l) == IF l.ch # "\n" /\ l.ch # NUL THEN skipComment(readChar(l)) ELSE l

\* for l.ch != '"' && l.ch != 0 { l.readChar() }
RECURSIVE StringLoop(_)
StringLoop(l) == IF l.ch # "\"" /\ l.ch # NUL THEN StringLoop(readChar(l)) ELSE l

\* str := l.input[start:l.pos]; l.readChar(); return str
StringFrom(start, l) == [str |-> Slice(l.input, start, l.pos), l |-> readChar(l)]

\* start := l.pos, and the loop
StringAt(l) == StringFrom(l.pos, StringLoop(l))

\* l.readString(): the string and the Lexer after it.
readString(l) == StringAt(readChar(l))

\* for isDigit(l.ch) { l.readChar() }
RECURSIVE DigitLoop(_)
DigitLoop(l) == IF isDigit(l.ch) THEN DigitLoop(readChar(l)) ELSE l

\* if l.ch == '-' { l.readChar() }
MinusSign(l) == IF l.ch = "-" THEN readChar(l) ELSE l

\* if l.ch == '.' { l.readChar(); for isDigit(l.ch) { l.readChar() } }
Fraction(l) == IF l.ch = "." THEN DigitLoop(readChar(l)) ELSE l

\* return l.input[start:l.pos]
TextFrom(start, l) == [str |-> Slice(l.input, start, l.pos), l |-> l]

\* l.readNumber()
readNumber(l) == TextFrom(l.pos, Fraction(DigitLoop(MinusSign(l))))

\* for isSymbolChar(l.ch) { l.readChar() }
RECURSIVE SymbolLoop(_)
SymbolLoop(l) == IF isSymbolChar(l.ch) THEN SymbolLoop(readChar(l)) ELSE l

\* l.readSymbol()
readSymbol(l) == TextFrom(l.pos, SymbolLoop(l))

\* tok := l.pending[0]; l.pending = l.pending[1:]; return tok
PopPending(l) == [tok |-> Head(l.pending), l |-> [l EXCEPT !.pending = Tail(@)]]

\* tok.Type = STRING; tok.Literal = l.readString(); return tok
StringToken(r) == [tok |-> Token(STRING_TOKEN, r.str), l |-> r.l]

\* tok.Type = NUMBER; tok.Literal = l.readNumber(); return tok
NumberToken(r) == [tok |-> Token(NUMBER, r.str), l |-> r.l]

\* tok.Literal = l.readSymbol(), of type BOOLEAN for #t and #f
SymbolToken(r) ==
    [tok |-> Token(IF r.str = <<"#", "t">> \/ r.str = <<"#", "f">> THEN BOOLEAN_TOKEN ELSE SYMBOL,
                   r.str),
     l |-> r.l]

RECURSIVE LexerNextToken(_)
RECURSIVE ExpressionLoop(_, _, _)

\* The body of the loop of readExpressionTokens on the token NextToken
\* returned.
ExpressionLoopBody(r, depth, tokens) ==
    IF r.tok.Type = LPAREN THEN ExpressionLoop(r.l, depth + 1, Append(tokens, r.tok))
    ELSE IF r.tok.Type = RPAREN THEN ExpressionLoop(r.l, depth - 1, Append(tokens, r.tok))
    ELSE IF r.tok.Type = EOF THEN [tokens |-> Append(tokens, r.tok), l |-> r.l]
    ELSE ExpressionLoop(r.l, depth, Append(tokens, r.tok))

\* for depth > 0 { tok = l.NextToken(); tokens = append(tokens, tok) ... }
ExpressionLoop(l, depth, tokens) ==
    IF depth > 0 THEN ExpressionLoopBody(LexerNextToken(l), depth, tokens)
    ELSE [tokens |-> tokens, l |-> l]

\* The rest of readExpressionTokens once the first token is read.
ExpressionFrom(r) ==
    IF r.tok.Type = LPAREN THEN ExpressionLoop(r.l, 1, <<r.tok>>)
    ELSE [tokens |-> <<r.tok>>, l |-> r.l]

\* l.readExpressionTokens(): the tokens and the Lexer after them.
readExpressionTokens(l) == ExpressionFrom(LexerNextToken(l))

\* l.pending = append(l.pending, LPAREN, QUOTE)
PushQuoteOpen(l) ==
    [l EXCEPT !.pending = @ \o <<Token(LPAREN, <<"(">>), Token(QUOTE, <<"'">>)>>]

\* l.pending = append(l.pending, datumTokens...), then the RPAREN, and the
\* first pending token is returned.
QuoteExpansion(r) ==
    PopPending([r.l EXCEPT !.pending = @ \o r.tokens \o <<Token(RPAREN, <<")">>)>>])

\* The default case of the switch of NextToken.
DefaultToken(l) ==
    IF isDigit(l.ch) \/ (l.ch = "-" /\ isDigit(peekChar(l)))
    THEN NumberToken(readNumber(l))
    ELSE IF isInitialSymbol(l.ch) THEN SymbolToken(readSymbol(l))
    ELSE [tok |-> Token(ILLEGAL, StringOfByte(l.ch)), l |-> readChar(l)]

\* A switch that returns the RPAREN token without reading past it.
SwitchTokenKeepingRParen(l) ==
    IF l.ch = "(" THEN [tok |-> Token(LPAREN, StringOfByte(l.ch)), l |-> readChar(l)]
    ELSE IF l.ch = ")" THEN [tok |-> Token(RPAREN, StringOfByte(l.ch)), l |-> l]
    ELSE IF l.ch = "." THEN [tok |-> Token(DOT, StringOfByte(l.ch)), l |-> readChar(l)]
    ELSE IF l.ch = "\"" THEN StringToken(readString(l))
    ELSE IF l.ch = ";" THEN LexerNextToken(skipComment(l))
    ELSE IF l.ch = NUL THEN [tok |-> Token(EOF, <<>>), l |-> l]
    ELSE DefaultToken(l)

\* switch l.ch
SwitchToken(l) ==
    IF l.ch = "(" THEN [tok |-> Token(LPAREN, StringOfByte(l.ch)), l |-> readChar(l)]
    ELSE IF l.ch = ")" THEN [tok |-> Token(RPAREN, StringOfByte(l.ch)), l |-> readChar(l)]
    ELSE IF l.ch = "." THEN [tok |-> Token(DOT, StringOfByte(l.ch)), l |-> readChar(l)]
    ELSE IF l.ch = "\"" THEN StringToken(readString(l))
    ELSE IF l.ch = ";" THEN LexerNextToken(skipComment(l))
    ELSE IF l.ch = NUL THEN [tok |-> Token(EOF, <<>>), l |-> l]
    ELSE DefaultToken(l)

\* NextToken after skipWhitespace: the quote expansion, or the switch.
TokenAt(l) ==
    IF l.ch = "'" THEN QuoteExpansion(readExpressionTokens(PushQuoteOpen(readChar(l))))
    ELSE SwitchToken(l)

\* l.NextToken(): the token and the Lexer after it.
LexerNextToken(l) ==
    IF Len(l.pending) > 0 THEN PopPending(l) ELSE TokenAt(skipWhitespace(l))

---------------------------------------------------------------------------
(* The programs handed to EvalAll.                                         *)

\* (s e1 e2 ...) with head symbol s
Form(s, es) == List(<<Symbol(s)>> \o es)

DefineX == Form("define", <<Symbol("x"), Integer(42)>>)
RefX == Symbol("x")
DefineF == Form("define", <<List(<<Symbol("f")>>), Symbol("x")>>)
LambdaCallF == List(<<Form("lambda", <<List(<<Symbol("x")>>), List(<<Symbol("f")>>)>>),
                      Integer(2)>>)
DefineH == Form("define", <<List(<<Symbol("h")>>),
                            Form("define", <<Symbol("x"), Integer(3)>>)>>)
CallH == List(<<Symbol("h")>>)
TooFewArgs == List(<<Form("lambda", <<List(<<Symbol("a"), Symbol("b")>>), Symbol("a")>>),
                     Integer(7)>>)
TooManyArgs == List(<<Symbol("f"), Form("define", <<Symbol("y"), Integer(5)>>)>>)
QuoteDatum == List(<<Form("lambda", <<List(<<Symbol("x")>>), Symbol("x")>>),
                     Form("define", <<Symbol("x"), Integer(9)>>),
                     Symbol("x"), Symbol("z")>>)
QuoteList == Form("quote", <<QuoteDatum>>)
QuoteTwo == Form("quote", <<Symbol("x"), Form("define", <<Symbol("x"), Integer(9)>>)>>)

QuoteNone == Form("quote", <<>>)

ExprPool ==
    {DefineX, RefX, DefineF, LambdaCallF, DefineH, CallH, TooFewArgs,
     TooManyArgs, QuoteList, QuoteTwo, QuoteNone}

\* Every symbol that occurs in a program of the model.
Symbols == {"x", "y", "z", "f", "h", "a", "b", "+", "*", "quote", "define", "lambda"}

RECURSIVE SeqsUpTo(_, _)
SeqsUpTo(S, n) ==
    IF n = 0 THEN {<<>>}
    ELSE LET shorter == SeqsUpTo(S, n - 1)
         IN  shorter \cup {Append(q, e) : q \in {r \in shorter : Len(r) = n - 1}, e \in S}

Programs == SeqsUpTo(ExprPool, MaxExprs)

---------------------------------------------------------------------------
(* EvalAll(exprs, env) on the global environment, one loop iteration per   *)
(* step.                                                                   *)

GlobalEnv == 1

IdleEval ==
    /\ exprs = <<>> /\ idx = 0 /\ heap = <<>> /\ result = Nil /\ err = NoError
    /\ returned = FALSE /\ trace = <<>> /\ calls = <<>> /\ defs = <<>>
    /\ steps = <<>>
IdleArith == args = <<>> /\ out = [op |-> "", val |-> Nil, err |-> NoError]
IdleLex == lx = <<>> /\ toks = <<>>
IdleParse ==
    /\ src = <<>> /\ p = [pos |-> 1, curToken |-> [Type |-> "", Literal |-> ""]]
    /\ parsed = <<>> /\ perr = NoError /\ pdone = FALSE

InitEval ==
    /\ mode = "eval"
    /\ exprs \in Programs
    /\ idx = 0
    /\ heap = NewGlobalEnv
    /\ result = Nil
    /\ err = NoError
    /\ returned = FALSE
    /\ trace = <<>> /\ calls = <<>> /\ defs = <<>> /\ steps = <<>>
    /\ IdleArith /\ IdleParse /\ IdleLex

\* An EvalAll that evaluates every expression in a fresh global environment.
EvalAllStepFreshEnv ==
    /\ mode = "eval" /\ ~returned /\ idx < Len(exprs)
    /\ LET r == Eval(exprs[idx + 1], GlobalEnv,
                     Store(NewGlobalEnv, calls, defs, steps), 0)
       IN  /\ heap' = r.st.heap
           /\ calls' = r.st.calls
           /\ defs' = r.st.defs
           /\ steps' = r.st.steps
           /\ trace' = Append(trace, [i |-> idx + 1, val |-> r.val, err |-> r.err,
                                      before |-> heap, after |-> r.st.heap])
           /\ idx' = idx + 1
           /\ err' = r.err
           /\ IF r.err # NoError
              THEN result' = Nil /\ returned' = TRUE
              ELSE result' = r.val /\ returned' = FALSE
    /\ UNCHANGED <<mode, exprs, arithVars, parseVars, lexVars>>

\* An EvalAll that records an error and carries on with the next expression.
EvalAllStepCarryOn ==
    /\ mode = "eval" /\ ~returned /\ idx < Len(exprs)
    /\ LET r == Eval(exprs[idx + 1], GlobalEnv,
                     Store(heap, calls, defs, steps), 0)
       IN  /\ heap' = r.st.heap
           /\ calls' = r.st.calls
           /\ defs' = r.st.defs
           /\ steps' = r.st.steps
           /\ trace' = Append(trace, [i |-> idx + 1, val |-> r.val, err |-> r.err,
                                      before |-> heap, after |-> r.st.heap])
           /\ idx' = idx + 1
           /\ err' = r.err
           /\ result' = r.val
           /\ returned' = FALSE
    /\ UNCHANGED <<mode, exprs, arithVars, parseVars, lexVars>>

\* One iteration of the loop of EvalAll: result, err = Eval(expr, env).
EvalAllStep ==
    /\ mode = "eval" /\ ~returned /\ idx < Len(exprs)
    /\ LET r == Eval(exprs[idx + 1], GlobalEnv,
                     Store(heap, calls, defs, steps), 0)
       IN  /\ heap' = r.st.heap
           /\ calls' = r.st.calls
           /\ defs' = r.st.defs
           /\ steps' = r.st.steps
           /\ trace' = Append(trace, [i |-> idx + 1, val |-> r.val, err |-> r.err,
                                      before |-> heap, after |-> r.st.heap])
           /\ idx' = idx + 1
           /\ err' = r.err
           /\ IF r.err # NoError
              THEN result' = Nil /\ returned' = TRUE
              ELSE result' = r.val /\ returned' = FALSE
    /\ UNCHANGED <<mode, exprs, arithVars, parseVars, lexVars>>

\* The loop is over: return result, nil.
EvalAllReturn ==
    /\ mode = "eval" /\ ~returned /\ idx = Len(exprs)
    /\ returned' = TRUE
    /\ UNCHANGED <<mode, exprs, idx, heap, result, err, trace, calls, defs, steps,
                   arithVars, parseVars, lexVars>>

---------------------------------------------------------------------------
(* The builtins called directly on an argument list.                       *)

ArgPool ==
    {Integer(2), Integer(0 - 3), Float(3, 1), Float(1, 2),
     String("a"), Symbol("x"), List(<<Integer(1)>>), Comment("; c"),
     Closure(<<"a">>, Symbol("a"), GlobalEnv), Builtin("+")}

ArgLists == SeqsUpTo(ArgPool, MaxArgs)

NotCalled == [op |-> "", val |-> Nil, err |-> NoError]

InitArith ==
    /\ mode = "arith"
    /\ args \in ArgLists
    /\ out = NotCalled
    /\ IdleEval /\ IdleParse /\ IdleLex

\* builtinAdd(args)
CallAdd ==
    /\ mode = "arith" /\ out = NotCalled
    /\ out' = [op |-> "+", val |-> builtinAdd(args).val, err |-> builtinAdd(args).err]
    /\ UNCHANGED <<mode, args, evalVars, parseVars, lexVars>>

\* builtinMul(args)
CallMul ==
    /\ mode = "arith" /\ out = NotCalled
    /\ out' = [op |-> "*", val |-> builtinMul(args).val, err |-> builtinMul(args).err]
    /\ UNCHANGED <<mode, args, evalVars, parseVars, lexVars>>

NextArith == CallAdd \/ CallMul
SpecArith == InitArith /\ [][NextArith]_vars

\* Integer operands at and beyond the ends of the int64 range: math.MaxInt64,
\* math.MinInt64 and 1<<32 + 1 next to small ones.
MaxInt64 == [k \in 1..Int64Bytes |-> IF k = Int64Bytes THEN 127 ELSE 255]
MinInt64 == [k \in 1..Int64Bytes |-> IF k = Int64Bytes THEN 128 ELSE 0]
Pow32Plus1 == [k \in 1..Int64Bytes |-> IF k \in {1, 5} THEN 1 ELSE 0]

IntegerPool ==
    {Integer(2), Integer(0 - 3), IntegerOf(MaxInt64), IntegerOf(MinInt64),
     IntegerOf(Pow32Plus1), Integer(0 - 1)}

IntegerLists == SeqsUpTo(IntegerPool, MaxArgs)

InitIntegers ==
    /\ mode = "arith"
    /\ args \in IntegerLists
    /\ out = NotCalled
    /\ IdleEval /\ IdleParse /\ IdleLex

SpecIntegers == InitIntegers /\ [][NextArith]_vars

---------------------------------------------------------------------------
(* The pipeline of the tests: NewParser, ParseAll, then EvalAll on a new   *)
(* global environment.                                                     *)

MaxPieces == 3      \* most pieces a source text is made of

DefineX5Text == <<"(", "d", "e", "f", "i", "n", "e", " ", "x", " ", "5", ")", "\n">>
RefXText == <<"x", "\n">>
CommentText == <<";", " ", "c", "\n">>
DefineInsideText ==
    <<"(", "d", "e", "f", "i", "n", "e", " ", "x", " ", ";", "c", "\n",
      " ", "7", ")", "\n">>
CommentNoNewlineText == <<";", "c">>
CommentQuoteText == <<";", " ", "\"", "q", "\n">>
StringText == <<"\"", "a", ";", "b", "\"", "\n">>
AddText == <<"(", "+", " ", "x", " ", "1", ".", "5", ")", "\n">>

OpenQuoteText == <<"(", "a", " ", "'">>

PiecePool ==
    {DefineX5Text, RefXText, CommentText, DefineInsideText,
     CommentNoNewlineText, CommentQuoteText, StringText, AddText, OpenQuoteText}

RECURSIVE Concat(_)
Concat(pieces) == IF Len(pieces) = 0 THEN <<>> ELSE Head(pieces) \o Concat(Tail(pieces))

\* The data that are quoted, as text.
Datums ==
    {<<"a">>, <<"5">>, <<"1", ".", "5">>, <<"\"", "s", "\"">>, <<"(", ")">>,
     <<"(", "a", " ", "b", ")">>, <<"(", "a", " ", "(", "b", ")", ")">>,
     <<"'", "a">>, <<"'", "(", "a", ")">>, <<"(", "a", " ", "'", "b", ")">>,
     <<"(", "q", "u", "o", "t", "e", " ", "a", ")">>}

\* 'X and (quote X)
QuoteMark(datum) == <<"'">> \o datum
QuoteForm(datum) == <<"(", "q", "u", "o", "t", "e", " ">> \o datum \o <<")">>

Sources ==
    {Concat(q) : q \in SeqsUpTo(PiecePool, MaxPieces)}
    \cup {QuoteMark(d) : d \in Datums} \cup {QuoteForm(d) : d \in Datums}

\* The body of the loop of ParseAll when ParseExpr returned r.
ParseAllBody(r, es) ==
    IF r.err = NoError
    THEN [p |-> r.p, parsed |-> Append(es, r.expr), perr |-> NoError, pdone |-> FALSE]
    ELSE IF r.err = IoEOF
    THEN [p |-> r.p, parsed |-> es, perr |-> NoError, pdone |-> TRUE]
    ELSE [p |-> r.p, parsed |-> <<>>, perr |-> r.err, pdone |-> TRUE]

\* One iteration of the loop of ParseAll, from Parser ps with exprs so far.
ParseAllIter(text, ps, es) == ParseAllBody(ParseExpr(text, ps), es)

InitParse ==
    /\ mode = "parse"
    /\ src \in Sources
    /\ p = NewParser(src)
    /\ parsed = <<>>
    /\ perr = NoError
    /\ pdone = FALSE
    /\ IdleEval /\ IdleArith /\ IdleLex

\* for p.curToken.Type != lexer.TokenEOF { expr, err := p.ParseExpr() ... }
ParseAllStep ==
    /\ mode = "parse" /\ ~pdone /\ p.curToken.Type # "TokenEOF"
    /\ \E it \in {ParseAllIter(src, p, parsed)} :
           /\ p' = it.p
           /\ parsed' = it.parsed
           /\ perr' = it.perr
           /\ pdone' = it.pdone
    /\ UNCHANGED <<mode, src, evalVars, arithVars, lexVars>>

\* return exprs, nil
ParseAllReturn ==
    /\ mode = "parse" /\ ~pdone /\ p.curToken.Type = "TokenEOF"
    /\ pdone' = TRUE
    /\ UNCHANGED <<mode, src, p, parsed, perr, evalVars, arithVars, lexVars>>

\* env := NewGlobalEnv(); EvalAll(exprs, env) is entered.
StartEvalAll ==
    /\ mode = "parse" /\ pdone /\ perr = NoError
    /\ mode' = "eval"
    /\ exprs' = parsed
    /\ heap' = NewGlobalEnv
    /\ UNCHANGED <<idx, result, err, returned, trace, calls, defs, steps,
                   arithVars, parseVars, lexVars>>

NextPipeline ==
    ParseAllStep \/ ParseAllReturn \/ StartEvalAll \/ EvalAllStep \/ EvalAllReturn
SpecPipeline == InitParse /\ [][NextPipeline]_vars

\* p.ParseAll() as one function.
RECURSIVE ParseAllLoop(_, _, _)
ParseAllLoop(text, ps, es) ==
    IF ps.curToken.Type = "TokenEOF" THEN [parsed |-> es, perr |-> NoError]
    ELSE LET it == ParseAllIter(text, ps, es)
         IN  IF it.pdone THEN [parsed |-> it.parsed, perr |-> it.perr]
             ELSE ParseAllLoop(text, it.p, it.parsed)

ParseAll(text) == ParseAllLoop(text, NewParser(text), <<>>)

\* EvalAll(exprs, env) as one function, from expression k on.
RECURSIVE EvalAllLoop(_, _, _, _)
EvalAllLoop(es, k, st, last) ==
    IF k > Len(es) THEN [result |-> last, err |-> NoError, heap |-> st.heap]
    ELSE LET r == Eval(es[k], GlobalEnv, st, 0)
         IN  IF r.err # NoError
             THEN [result |-> Nil, err |-> r.err, heap |-> r.st.heap]
             ELSE EvalAllLoop(es, k + 1, r.st, r.val)

\* What the pipeline yields for a text: the parse error, or the result,
\* the error and the environments of EvalAll.
RunPipeline(text) ==
    LET pa == ParseAll(text)
    IN  IF pa.perr # NoError
        THEN [perr |-> pa.perr, result |-> Nil, err |-> NoError, heap |-> <<>>]
        ELSE LET ev == EvalAllLoop(pa.parsed, 1,
                          Store(NewGlobalEnv, <<>>, <<>>, <<>>), Nil)
             IN  [perr |-> NoError, result |-> ev.result, err |-> ev.err,
                  heap |-> ev.heap]

---------------------------------------------------------------------------
(* The two lexers driven on their own: NextToken is called again and      *)
(* again on one Lexer, also after the end of the input.                    *)

MaxInput == 4       \* longest input text, in characters
MaxTokens == 7      \* most NextToken calls made on one Lexer

LexerAlphabet == {"'", "(", ")", "a", "\"", " "}
\* Inputs with bytes of 128 or more: hiragana a in UTF-8 is E3 81 82.
ByteAlphabet == {"<E3>", "<81>", "a"}
LexerInputs == SeqsUpTo(LexerAlphabet, MaxInput) \cup SeqsUpTo(ByteAlphabet, 2)

ScannerAlphabet == {"-", "5", ".", "a", "@", "\"", " "}
QuoteAlphabet == {"'", ";", "\"", "\n", "a", "("}
RuneAlphabet == {"U+3042", "U+0663", "a", "5"}
ScannerInputs ==
    SeqsUpTo(ScannerAlphabet, MaxInput) \cup SeqsUpTo(QuoteAlphabet, MaxInput)
    \cup SeqsUpTo(RuneAlphabet, 3)

\* lexer.New(input)
InitLexer ==
    /\ mode = "lexer"
    /\ \E input \in LexerInputs : lx = New(input)
    /\ toks = <<>>
    /\ IdleEval /\ IdleArith /\ IdleParse

\* lexer.NewLexer(r): the scanner at the start of the text.
InitScanner ==
    /\ mode = "scanner"
    /\ \E input \in ScannerInputs : lx = [input |-> input, pos |-> 1]
    /\ toks = <<>>
    /\ IdleEval /\ IdleArith /\ IdleParse

\* tok := l.NextToken() on the hand-written lexer
CallNextToken ==
    /\ mode = "lexer" /\ Len(toks) < MaxTokens
    /\ \E r \in {LexerNextToken(lx)} :
          /\ lx' = r.l
          /\ toks' = Append(toks, r.tok)
    /\ UNCHANGED <<mode, evalVars, arithVars, parseVars>>

\* tok := l.NextToken() on the scanner-based lexer
CallScannerNextToken ==
    /\ mode = "scanner" /\ Len(toks) < MaxTokens
    /\ \E r \in {NextToken(lx.input, lx.pos)} :
          /\ lx' = [lx EXCEPT !.pos = r.pos]
          /\ toks' = Append(toks, r.tok)
    /\ UNCHANGED <<mode, evalVars, arithVars, parseVars>>

MaxCalls == 4 * MaxInput     \* most NextToken calls made while waiting for EOF

ProgressAlphabet == {"'", "(", ")", "a", ",", ";"}
ProgressInputs == SeqsUpTo(ProgressAlphabet, MaxInput)

\* Before lexer.New is called there is no Lexer.
InitProgress ==
    /\ mode = "new"
    /\ IdleLex /\ IdleEval /\ IdleArith /\ IdleParse

\* l := lexer.New(input), for a caller that reads tokens until EOF
NewProgress ==
    /\ mode = "new"
    /\ mode' = "lexer"
    /\ \E input \in ProgressInputs : lx' = New(input)
    /\ toks' = <<>>
    /\ UNCHANGED <<evalVars, arithVars, parseVars>>

\* TRUE when NextToken has returned the EOF token.
EOFReturned == \E k \in 1..Len(toks) : toks[k].Type = EOF

\* TRUE when the caller's loop has a NextToken call to make.
CanCallNextToken == mode = "lexer" /\ ~EOFReturned /\ Len(toks) < MaxCalls

\* for tok := l.NextToken(); tok.Type != EOF; tok = l.NextToken() { ... }
CallNextTokenUntilEOF ==
    /\ CanCallNextToken
    /\ \E r \in {LexerNextToken(lx)} :
          /\ lx' = r.l
          /\ toks' = Append(toks, r.tok)
    /\ UNCHANGED <<mode, evalVars, arithVars, parseVars>>

NextProgress == NewProgress \/ CallNextTokenUntilEOF

\* The caller makes the Lexer and goes on calling NextToken until it gets
\* EOF: weak fairness of New, and weak fairness of the call with its
\* enabling condition written out.
SpecProgress ==
    /\ InitProgress /\ [][NextProgress]_vars
    /\ WF_vars(NewProgress)
    /\ ([]<>~CanCallNextToken \/ []<><<CallNextTokenUntilEOF>>_vars)

CommentAlphabet == {";", "\n", "a", "(", "5", " "}
DiscardingInputs == SeqsUpTo(CommentAlphabet, MaxInput)

\* lexer.NewLexer(r) of the lexer that discards comments
InitDiscarding ==
    /\ mode = "discarding"
    /\ \E input \in DiscardingInputs : lx = [input |-> input, pos |-> 1]
    /\ toks = <<>>
    /\ IdleEval /\ IdleArith /\ IdleParse

\* tok := l.NextToken() on the lexer that discards comments
CallDiscardingNextToken ==
    /\ mode = "discarding" /\ Len(toks) < MaxTokens
    /\ \E r \in {NextTokenDiscarding(lx.input, lx.pos)} :
          /\ lx' = [lx EXCEPT !.pos = r.pos]
          /\ toks' = Append(toks, r.tok)
    /\ UNCHANGED <<mode, evalVars, arithVars, parseVars>>

InitLexers == InitLexer \/ InitScanner \/ InitDiscarding
NextLexers == CallNextToken \/ CallScannerNextToken \/ CallDiscardingNextToken
SpecLexers == InitLexers /\ [][NextLexers]_vars

Init == InitEval
Next == EvalAllStep \/ EvalAllReturn
Spec == Init /\ [][Next]_vars

---------------------------------------------------------------------------
(* Programs about symbol lookup and closures, and EvalAll on them.         *)

CallF == List(<<Symbol("f")>>)
ShadowCall == List(<<Form("lambda", <<List(<<Symbol("x")>>), Symbol("x")>>), Integer(2)>>)
DefineSelf == Form("define", <<List(<<Symbol("s")>>), Symbol("s")>>)
CallSelf == List(<<Symbol("s")>>)
OverwriteThenCall ==
    List(<<Form("lambda", <<List(<<Symbol("a"), Symbol("b")>>), List(<<Symbol("f")>>)>>),
           Form("define", <<List(<<Symbol("f")>>), Symbol("x")>>),
           Form("define", <<Symbol("x"), Integer(9)>>)>>)
DefineAndCallSelf ==
    List(<<Form("lambda", <<List(<<Symbol("a")>>), List(<<Symbol("s")>>)>>),
           Form("define", <<List(<<Symbol("s")>>), Symbol("s")>>)>>)
InnerShadow ==
    List(<<Form("lambda", <<List(<<Symbol("y")>>),
                            List(<<Form("lambda", <<List(<<Symbol("x")>>), Symbol("y")>>),
                                   Symbol("x")>>)>>),
           Integer(3)>>)

ScopePool ==
    {DefineX, RefX, DefineF, CallF, ShadowCall, DefineSelf, CallSelf,
     OverwriteThenCall, DefineAndCallSelf, InnerShadow}

ScopePrograms == SeqsUpTo(ScopePool, MaxExprs)

InitScope ==
    /\ mode = "eval"
    /\ exprs \in ScopePrograms
    /\ idx = 0
    /\ heap = NewGlobalEnv
    /\ result = Nil
    /\ err = NoError
    /\ returned = FALSE
    /\ trace = <<>> /\ calls = <<>> /\ defs = <<>> /\ steps = <<>>
    /\ IdleArith /\ IdleParse /\ IdleLex

SpecScope == InitScope /\ [][Next]_vars

---------------------------------------------------------------------------
(* Programs about special forms and applications, and EvalAll on them.     *)

DefineQuote == Form("define", <<Symbol("quote"), Integer(7)>>)
QuoteX == Form("quote", <<Symbol("x")>>)
QuoteInFrame ==
    List(<<Form("lambda", <<List(<<Symbol("a")>>), Form("quote", <<Symbol("a")>>)>>),
           Integer(1)>>)
LambdaParamLambda ==
    List(<<Form("lambda", <<List(<<Symbol("lambda")>>),
                            Form("lambda", <<List(<<Symbol("x")>>), Symbol("x")>>)>>),
           Integer(2)>>)
DefineParamDefine ==
    List(<<Form("lambda", <<List(<<Symbol("define")>>),
                            Form("define", <<Symbol("y"), Integer(1)>>)>>),
           Integer(3)>>)
OperandDefine ==
    List(<<Form("lambda", <<List(<<Symbol("a"), Symbol("b")>>), Symbol("b")>>),
           Form("define", <<Symbol("y"), Integer(5)>>), Symbol("y")>>)
OperandLate ==
    List(<<Form("lambda", <<List(<<Symbol("a"), Symbol("b")>>), Symbol("a")>>),
           Symbol("y"), Form("define", <<Symbol("y"), Integer(5)>>)>>)
RefY == Symbol("y")
NestedArith ==
    Form("+", <<Integer(1), Form("*", <<Integer(2), Integer(3)>>)>>)

ApplyPool ==
    {DefineQuote, QuoteX, QuoteInFrame, LambdaParamLambda, DefineParamDefine,
     OperandDefine, OperandLate, TooManyArgs, RefY, NestedArith}

ApplyPrograms == SeqsUpTo(ApplyPool, MaxExprs)

InitApply ==
    /\ mode = "eval"
    /\ exprs \in ApplyPrograms
    /\ idx = 0
    /\ heap = NewGlobalEnv
    /\ result = Nil
    /\ err = NoError
    /\ returned = FALSE
    /\ trace = <<>> /\ calls = <<>> /\ defs = <<>> /\ steps = <<>>
    /\ IdleArith /\ IdleParse /\ IdleLex

SpecApply == InitApply /\ [][Next]_vars

---------------------------------------------------------------------------
(* Programs whose closures have more than one body expression, and EvalAll *)
(* on them.                                                                *)

DefineTwoBodies == Form("define", <<List(<<Symbol("q")>>), Integer(1), Integer(2)>>)
CallQ == List(<<Symbol("q")>>)
DefinePlusBodies ==
    Form("define", <<List(<<Symbol("r")>>), Symbol("+"), Integer(1), Integer(2)>>)
CallR == List(<<Symbol("r")>>)
LambdaDefineThenRef ==
    List(<<Form("lambda", <<List(<<Symbol("a")>>),
                            Form("define", <<Symbol("y"), Symbol("a")>>),
                            Symbol("y")>>),
           Integer(4)>>)

BodyPool ==
    {DefineTwoBodies, CallQ, DefinePlusBodies, CallR, LambdaDefineThenRef,
     DefineF, CallF, DefineX}

BodyPrograms == SeqsUpTo(BodyPool, MaxExprs)

InitBody ==
    /\ mode = "eval"
    /\ exprs \in BodyPrograms
    /\ idx = 0
    /\ heap = NewGlobalEnv
    /\ result = Nil
    /\ err = NoError
    /\ returned = FALSE
    /\ trace = <<>> /\ calls = <<>> /\ defs = <<>> /\ steps = <<>>
    /\ IdleArith /\ IdleParse /\ IdleLex

SpecBody == InitBody /\ [][Next]_vars

---------------------------------------------------------------------------
(* Programs with defines that fail, and EvalAll on them.                   *)

DefineXUnbound == Form("define", <<Symbol("x"), Symbol("z")>>)
DefineXShort == Form("define", <<Symbol("x")>>)
DefineBadName == Form("define", <<Integer(5), Integer(1)>>)
DefineNoName == Form("define", <<List(<<>>), Integer(1)>>)
DefineBadParam == Form("define", <<List(<<Symbol("x"), Integer(5)>>), Integer(1)>>)
DefineXNested ==
    Form("define", <<Symbol("x"),
                     Form("+", <<Form("define", <<Symbol("x"), Integer(9)>>), Integer(1)>>)>>)
FrameDefineUnbound ==
    List(<<Form("lambda", <<List(<<Symbol("x")>>),
                            Form("define", <<Symbol("x"), Symbol("z")>>)>>),
           Integer(1)>>)
OperandDefineUnbound ==
    Form("+", <<Integer(1), Form("define", <<Symbol("x"), Symbol("z")>>)>>)

DefinePool ==
    {DefineX, RefX, DefineXUnbound, DefineXShort, DefineBadName, DefineNoName,
     DefineBadParam, DefineXNested, FrameDefineUnbound, OperandDefineUnbound}

DefinePrograms == SeqsUpTo(DefinePool, MaxExprs)

InitDefine ==
    /\ mode = "eval"
    /\ exprs \in DefinePrograms
    /\ idx = 0
    /\ heap = NewGlobalEnv
    /\ result = Nil
    /\ err = NoError
    /\ returned = FALSE
    /\ trace = <<>> /\ calls = <<>> /\ defs = <<>> /\ steps = <<>>
    /\ IdleArith /\ IdleParse /\ IdleLex

SpecDefine == InitDefine /\ [][Next]_vars

---------------------------------------------------------------------------
(* Programs that apply values that are not functions, and EvalAll on them. *)

ApplyInteger ==
    List(<<Integer(7), Form("define", <<Symbol("y"), Integer(5)>>), Symbol("y")>>)
ApplyIntegerUnbound ==
    List(<<Integer(7), Form("define", <<Symbol("y"), Integer(5)>>), Symbol("z")>>)
ApplyX == List(<<Symbol("x"), Form("define", <<Symbol("y"), Integer(5)>>)>>)
ApplyQuoted ==
    List(<<Form("quote", <<Symbol("a")>>), Form("define", <<Symbol("x"), Integer(1)>>)>>)
ApplyNested == List(<<Integer(1), List(<<Integer(2), Symbol("z")>>)>>)

NotFunctionPool ==
    {ApplyInteger, ApplyIntegerUnbound, ApplyX, ApplyQuoted, ApplyNested,
     DefineX, RefX, RefY, OperandDefine}

NotFunctionPrograms == SeqsUpTo(NotFunctionPool, MaxExprs)

InitNotFunction ==
    /\ mode = "eval"
    /\ exprs \in NotFunctionPrograms
    /\ idx = 0
    /\ heap = NewGlobalEnv
    /\ result = Nil
    /\ err = NoError
    /\ returned = FALSE
    /\ trace = <<>> /\ calls = <<>> /\ defs = <<>> /\ steps = <<>>
    /\ IdleArith /\ IdleParse /\ IdleLex

SpecNotFunction == InitNotFunction /\ [][Next]_vars

---------------------------------------------------------------------------
(* Properties of the evaluator, checked under Spec.                        *)

\* The model never exhausts the stack: no program of the pool recurses.
NoStackOverflow ==
    \A k \in 1..Len(trace) : trace[k].err.fmt # "stack overflow"

\* C1: scoping is lexical.  The frame made for a closure call has the
\* closure's defining environment as its parent, never the caller's, and
\* stays so; hence every symbol that is not a parameter resolves, from the
\* call frame, to exactly what it resolves to from the defining
\* environment, whatever the caller's environment binds it to; a body that
\* is such a symbol returns that value.
LexicalScoping ==
    \A k \in 1..Len(calls) :
        LET c == calls[k]
            params == {c.fn.params[j] : j \in 1..Len(c.fn.params)}
        IN  c.frame # 0 =>
              /\ c.bound[c.frame].outer = c.fn.env
              /\ heap[c.frame].outer = c.fn.env
              /\ \A s \in Symbols \ params :
                    EnvGet(c.bound, c.frame, s) = EnvGet(c.bound, c.fn.env, s)
              /\ (c.fn.body.t = "Symbol" /\ c.fn.body.sym \notin params) =>
                    /\ c.val = EnvGet(c.bound, c.fn.env, c.fn.body.sym).val
                    /\ (c.err = NoError) = EnvGet(c.bound, c.fn.env, c.fn.body.sym).ok

\* A closure whose body is a free symbol was called from a frame, other
\* than its defining environment, that binds the symbol to another value.
LexicalScopingWitness ==
    \E k \in 1..Len(calls) :
        LET c == calls[k]
        IN  /\ c.frame # 0
            /\ c.caller # c.fn.env
            /\ c.fn.body.t = "Symbol"
            /\ c.fn.body.sym \in DOMAIN c.bound[c.caller].vars
            /\ EnvGet(c.bound, c.fn.env, c.fn.body.sym).ok
            /\ c.bound[c.caller].vars[c.fn.body.sym] # c.val
            /\ c.err = NoError

\* C2: a define evaluated in environment E changes E's own mapping at the
\* defined name and nothing else: no frame is added or removed, every other
\* frame is exactly what it was, and E keeps its parent and its other
\* bindings.
DefineOnlyInOwnFrame ==
    \A k \in 1..Len(defs) :
        LET d == defs[k]
        IN  /\ Len(d.after) = Len(d.before)
            /\ \A f \in 1..Len(d.before) : f # d.env => d.after[f] = d.before[f]
            /\ d.after[d.env].outer = d.before[d.env].outer
            /\ DOMAIN d.after[d.env].vars = DOMAIN d.before[d.env].vars \cup {d.sym}
            /\ d.after[d.env].vars[d.sym] = d.val
            /\ \A s \in DOMAIN d.before[d.env].vars \ {d.sym} :
                  d.after[d.env].vars[s] = d.before[d.env].vars[s]

\* A define ran in a call frame while the global frame already bound the
\* same name to another value.
DefineOnlyInOwnFrameWitness ==
    \E k \in 1..Len(defs) :
        LET d == defs[k]
        IN  /\ d.env # GlobalEnv
            /\ d.before[d.env].outer = GlobalEnv
            /\ d.sym \in DOMAIN d.before[GlobalEnv].vars
            /\ d.before[GlobalEnv].vars[d.sym] # d.val
            /\ heap[GlobalEnv].vars[d.sym] = d.before[GlobalEnv].vars[d.sym]

\* TRUE when e contains a define form, at any depth.
RECURSIVE ContainsDefine(_)
ContainsDefine(e) ==
    /\ e.t = "List"
    /\ \/ Len(e.elems) > 0 /\ e.elems[1] = Symbol("define")
       \/ \E k \in 1..Len(e.elems) : ContainsDefine(e.elems[k])

\* (define s c) for a self-evaluating literal c
IsLiteralDefine(e) ==
    /\ e.t = "List" /\ Len(e.elems) = 3
    /\ e.elems[1] = Symbol("define")
    /\ e.elems[2].t = "Symbol"
    /\ e.elems[3].t \in {"Integer", "Float", "String"}

\* C3: EvalAll evaluates the expressions in sequence order, each in the
\* environment the previous one left; when none fails it returns the value
\* of the last one (nil for no expressions); and after (define s c) a later
\* top-level s evaluates to c when no define comes between.
EvalAllInOrder ==
    /\ Len(trace) = idx
    /\ \A k \in 1..Len(trace) :
          /\ trace[k].i = k
          /\ trace[k].before = IF k = 1 THEN NewGlobalEnv ELSE trace[k - 1].after
    /\ (returned /\ err = NoError) =>
          /\ idx = Len(exprs)
          /\ result = IF Len(exprs) = 0 THEN Nil ELSE trace[Len(exprs)].val
    /\ \A i \in 1..Len(trace) : \A j \in (i + 1)..Len(trace) :
          ( /\ IsLiteralDefine(exprs[i])
            /\ exprs[j] = exprs[i].elems[2]
            /\ \A m \in (i + 1)..(j - 1) : ~ContainsDefine(exprs[m]) )
          => (trace[j].val = exprs[i].elems[3] /\ trace[j].err = NoError)

\* EvalAll returned Integer 42 for a program that defines x as 42 and ends
\* with x, with another expression between the two.
EvalAllInOrderWitness ==
    /\ returned /\ err = NoError
    /\ Len(exprs) = 3
    /\ exprs[1] = DefineX /\ exprs[2] # DefineX /\ exprs[3] = RefX
    /\ result = Integer(42)

\* C4: when a top-level expression fails, EvalAll returns that error and no
\* value, the failing expression is the last one evaluated, and the
\* environment is the one that expression left: every global binding made
\* before it is still there.
EvalAllStopsAtFirstError ==
    \A k \in 1..Len(trace) :
        trace[k].err # NoError =>
            /\ k = Len(trace)
            /\ idx = k
            /\ returned
            /\ result = Nil
            /\ err = trace[k].err
            /\ heap = trace[k].after
            /\ \A s \in DOMAIN trace[k].before[GlobalEnv].vars :
                  s \in DOMAIN heap[GlobalEnv].vars

\* The second of three expressions failed after the first had defined x,
\* and the third is a define.
EvalAllStopsAtFirstErrorWitness ==
    /\ Len(exprs) = 3 /\ Len(trace) = 2
    /\ trace[2].err # NoError
    /\ exprs[1] = DefineX
    /\ "x" \in DOMAIN heap[GlobalEnv].vars
    /\ ContainsDefine(exprs[3])
    /\ returned

\* C9: a closure invoked with n arguments for m parameters, n # m, fails
\* with the arity error carrying m and n; no frame is made and the heap is
\* left untouched.  A call that does get a frame has n = m and binds
\* exactly its parameters, each to its argument.
ClosureArity ==
    \A k \in 1..Len(calls) :
        LET c == calls[k]
            m == Len(c.fn.params)
            n == Len(c.args)
        IN  /\ n # m =>
                /\ c.err = Errorf("expected %d arguments, got %d",
                                  <<Integer(m), Integer(n)>>)
                /\ c.val = Nil
                /\ c.frame = 0
                /\ c.after = c.before
            /\ c.frame # 0 =>
                /\ n = m
                /\ c.frame = Len(c.before) + 1
                /\ DOMAIN c.bound[c.frame].vars = {c.fn.params[j] : j \in 1..m}
                /\ \A j \in 1..m :
                      (\A j2 \in (j + 1)..m : c.fn.params[j2] # c.fn.params[j])
                      => c.bound[c.frame].vars[c.fn.params[j]] = c.args[j]

\* A closure without parameters was invoked with one argument, and EvalAll
\* returned the arity error.
ClosureArityWitness ==
    /\ returned
    /\ \E k \in 1..Len(calls) :
          /\ Len(calls[k].args) > Len(calls[k].fn.params)
          /\ err = calls[k].err
          /\ err.a = <<Integer(0), Integer(1)>>

\* (quote ...) at the head of a list
IsQuoteForm(e) ==
    e.t = "List" /\ Len(e.elems) > 0 /\ e.elems[1] = Symbol("quote")

\* C10: (quote D) returns D itself, unevaluated, and leaves every
\* environment as it was; quote with any other operand count is an error
\* (and changes nothing either).
QuoteReturnsDatum ==
    \A k \in 1..Len(trace) :
        IsQuoteForm(exprs[k]) =>
            /\ trace[k].after = trace[k].before
            /\ IF Len(exprs[k].elems) = 2
               THEN trace[k].val = exprs[k].elems[2] /\ trace[k].err = NoError
               ELSE /\ trace[k].val = Nil
                    /\ trace[k].err = Errorf("quote: wrong number of arguments", <<>>)

\* A list holding a lambda form, a define form, a bound and an unbound
\* symbol was quoted while x was bound, and came back as it was.
QuoteReturnsDatumWitness ==
    \E k \in 1..Len(trace) :
        /\ exprs[k] = QuoteList
        /\ trace[k].val = QuoteDatum
        /\ "x" \in DOMAIN trace[k].before[GlobalEnv].vars
        /\ "z" \notin DOMAIN trace[k].before[GlobalEnv].vars

---------------------------------------------------------------------------
(* Properties of the builtins, checked under SpecArith.                    *)

AllNumbers(vals) == \A k \in 1..Len(vals) : IsNumber(vals[k])
AllIntegers(vals) == \A k \in 1..Len(vals) : vals[k].t = "Integer"

\* The operand as the fraction num / 2^exp.
NumOf(v) ==
    IF v.t = "Integer" THEN IntOf(v.i)
    ELSE IF v.f.neg THEN 0 - NatOfMag(v.f.mag, 1) ELSE NatOfMag(v.f.mag, 1)
ExpOf(v) == IF v.t = "Integer" THEN 0 ELSE v.f.e

RECURSIVE ExpTotal(_, _)
ExpTotal(vals, k) == IF k > Len(vals) THEN 0 ELSE ExpOf(vals[k]) + ExpTotal(vals, k + 1)

\* The numerator of the sum of vals[k..] over the denominator 2^E.
RECURSIVE SumOver(_, _, _)
SumOver(vals, k, E) ==
    IF k > Len(vals) THEN 0
    ELSE NumOf(vals[k]) * (2 ^ (E - ExpOf(vals[k]))) + SumOver(vals, k + 1, E)

RECURSIVE ProductOfNums(_, _)
ProductOfNums(vals, k) ==
    IF k > Len(vals) THEN 1 ELSE NumOf(vals[k]) * ProductOfNums(vals, k + 1)

\* The mathematical sum and product of a list of numbers, as a value.
MathSum(vals) ==
    IF AllIntegers(vals) THEN Integer(SumOver(vals, 1, 0))
    ELSE Float(SumOver(vals, 1, ExpTotal(vals, 1)), ExpTotal(vals, 1))

MathProduct(vals) ==
    IF AllIntegers(vals) THEN Integer(ProductOfNums(vals, 1))
    ELSE Float(ProductOfNums(vals, 1), ExpTotal(vals, 1))

\* C7: on Integers and Floats only, + and * return the sum and the product
\* of all the operands: an Integer when every operand is an Integer, a
\* Float when any operand is a Float, wherever it stands; no operands give
\* Integer 0 and Integer 1.
ArithmeticFold ==
    (out.op # "" /\ AllNumbers(args)) =>
        /\ out.err = NoError
        /\ out.val = IF out.op = "+" THEN MathSum(args) ELSE MathProduct(args)
        /\ (out.val.t = "Integer") = AllIntegers(args)
        /\ (out.val.t = "Float") = (\E k \in 1..Len(args) : args[k].t = "Float")
        /\ Len(args) = 0 => out.val = IF out.op = "+" THEN Integer(0) ELSE Integer(1)

\* 2 + (-3) + 1.5 was computed, the Float standing last: Float 0.5.
ArithmeticFoldWitness ==
    /\ out.op = "+"
    /\ args = <<Integer(2), Integer(0 - 3), Float(3, 1)>>
    /\ out.val = Float(1, 1)

\* The first operand that is not a number.
FirstOther(vals) ==
    CHOOSE k \in 1..Len(vals) :
        ~IsNumber(vals[k]) /\ \A j \in 1..(k - 1) : IsNumber(vals[j])

\* C8: an operand that is neither Integer nor Float, at any position, makes
\* + and * return no value and the type error of the operation, which
\* carries the type of the first such operand.
ArithmeticTypeError ==
    (out.op # "" /\ ~AllNumbers(args)) =>
        /\ out.val = Nil
        /\ out.err = Errorf(out.op \o ": invalid argument type %T",
                            <<TypeName(args[FirstOther(args)])>>)

\* * was called with a String after an Integer and a Float.
ArithmeticTypeErrorWitness ==
    /\ out.op = "*"
    /\ args = <<Integer(2), Float(3, 1), String("a")>>
    /\ out.err.fmt = "*: invalid argument type %T"
    /\ out.err.a = <<String("parser.String")>>

---------------------------------------------------------------------------
(* Properties of the parser and of the pipeline, checked under             *)
(* SpecPipeline.                                                           *)

\* C5: for every datum X the texts 'X and (quote X) parse to the same
\* tree, the list of the symbol quote and the tree of X.
QuoteSugarSameTree ==
    \A d \in Datums :
        (pdone /\ src = QuoteMark(d)) =>
            /\ perr = NoError
            /\ parsed = ParseAll(QuoteForm(d)).parsed
            /\ ParseAll(QuoteForm(d)).perr = NoError
            /\ ParseAll(d).perr = NoError
            /\ parsed = <<List(<<Symbol("quote"), ParseAll(d).parsed[1]>>)>>

\* '(a 'b) has been parsed: a quoted list with a quoted form inside.
QuoteSugarSameTreeWitness ==
    /\ pdone
    /\ src = QuoteMark(<<"(", "a", " ", "'", "b", ")">>)
    /\ parsed = <<Form("quote", <<List(<<Symbol("a"),
                                         Form("quote", <<Symbol("b")>>)>>)>>)>>

\* The text without its line comments: everything from a ';' outside a
\* string literal up to, not including, the end of the line is dropped.
RECURSIVE StripComments(_, _, _, _)
StripComments(text, k, inString, inComment) ==
    IF k > Len(text) THEN <<>>
    ELSE IF inComment
    THEN IF text[k] = "\n" THEN <<"\n">> \o StripComments(text, k + 1, FALSE, FALSE)
         ELSE StripComments(text, k + 1, FALSE, TRUE)
    ELSE IF inString
    THEN <<text[k]>> \o StripComments(text, k + 1, text[k] # "\"", FALSE)
    ELSE IF text[k] = ";" THEN StripComments(text, k + 1, FALSE, TRUE)
    ELSE <<text[k]>> \o StripComments(text, k + 1, text[k] = "\"", FALSE)

WithoutComments(text) == StripComments(text, 1, FALSE, FALSE)

\* The pipeline has run to its end on src.
PipelineDone == pdone /\ (perr # NoError \/ (mode = "eval" /\ returned))

PipelineOutcome == [perr |-> perr, result |-> result, err |-> err, heap |-> heap]

\* C6: line comments never change what parsing then EvalAll yields: the
\* value, the error and the final environment are those of the same text
\* with the comments removed.
CommentsChangeNothing ==
    PipelineDone => PipelineOutcome = RunPipeline(WithoutComments(src))

---------------------------------------------------------------------------
(* Properties of symbol lookup and closures, checked under SpecScope.      *)

\* The frames from env to the root, innermost first.
RECURSIVE Chain(_, _)
Chain(h, env) == IF env = 0 THEN <<>> ELSE <<env>> \o Chain(h, h[env].outer)

\* The positions in Chain(h, env) of the frames that bind sym.
Binders(h, env, sym) ==
    {j \in 1..Len(Chain(h, env)) : sym \in DOMAIN h[Chain(h, env)[j]].vars}

\* TRUE when val, e is the outcome the chain of env prescribes for symbol
\* x: the binding of the first frame that binds it, or the error naming it.
Resolves(h, env, x, val, e) ==
    IF Binders(h, env, x.sym) = {}
    THEN val = Nil /\ e = Errorf("undefined symbol: %s", <<x>>)
    ELSE \E j \in Binders(h, env, x.sym) :
            /\ \A i \in Binders(h, env, x.sym) : j <= i
            /\ e = NoError
            /\ val = h[Chain(h, env)[j]].vars[x.sym]

\* C11: every evaluation of a symbol s in an environment E returns the
\* binding of s in the innermost frame of the chain from E to the root that
\* binds s, and the undefined-symbol error naming s exactly when no frame
\* of the chain binds it; so does every top-level symbol and every closure
\* body that is a symbol.
SymbolLookup ==
    /\ \A k \in 1..Len(steps) :
          steps[k].ev = "get" =>
             Resolves(steps[k].heap, steps[k].env, steps[k].x, steps[k].val, steps[k].err)
    /\ \A k \in 1..Len(trace) :
          exprs[k].t = "Symbol" =>
             Resolves(trace[k].before, GlobalEnv, exprs[k], trace[k].val, trace[k].err)
    /\ \A k \in 1..Len(calls) :
          (calls[k].frame # 0 /\ calls[k].fn.body.t = "Symbol") =>
             Resolves(calls[k].bound, calls[k].frame, calls[k].fn.body,
                      calls[k].val, calls[k].err)

\* A symbol was evaluated in a frame that binds it while an outer frame
\* binds it to another value, and a symbol that no frame binds was
\* evaluated too.
SymbolLookupWitness ==
    /\ \E k \in 1..Len(steps) :
          /\ steps[k].ev = "get"
          /\ steps[k].env # GlobalEnv
          /\ Cardinality(Binders(steps[k].heap, steps[k].env, steps[k].x.sym)) > 1
          /\ steps[k].x.sym \in DOMAIN steps[k].heap[GlobalEnv].vars
          /\ steps[k].heap[GlobalEnv].vars[steps[k].x.sym] # steps[k].val
          /\ steps[k].err = NoError
    /\ \E k \in 1..Len(steps) :
          /\ steps[k].ev = "get"
          /\ steps[k].err # NoError

\* TRUE when closure fn was made at entry q of steps and its body is a
\* symbol that is not one of its parameters.
MadeAt(q, fn) ==
    /\ steps[q].ev = "closure" /\ steps[q].val = fn
    /\ fn.body.t = "Symbol"
    /\ \A j \in 1..Len(fn.params) : fn.params[j] # fn.body.sym

\* C14: a closure holds the environment it was made in, not a copy: the Env
\* in the closure is the Env the lambda or define was evaluated in, making
\* it adds no frame, and a body that is a free symbol yields, on every
\* call, what that environment binds the symbol to when the call is made,
\* whatever it bound when the closure was made.
ClosureSharesEnv ==
    /\ \A q \in 1..Len(steps) :
          steps[q].ev = "closure" =>
             /\ steps[q].val.env = steps[q].env
             /\ q < Len(steps) => Len(steps[q + 1].heap) = Len(steps[q].heap)
    /\ \A k \in 1..Len(calls) : \A q \in 1..Len(steps) :
          (calls[k].frame # 0 /\ MadeAt(q, calls[k].fn)) =>
             Resolves(calls[k].before, steps[q].env, calls[k].fn.body,
                      calls[k].val, calls[k].err)

\* A closure returned the binding that its defining environment got after
\* the closure was made, one where the name was unbound then (the
\* closure's own name) and one where it was bound to another value.
ClosureSharesEnvWitness ==
    /\ \E k \in 1..Len(calls) : \E q \in 1..Len(steps) :
          /\ calls[k].frame # 0 /\ MadeAt(q, calls[k].fn)
          /\ calls[k].err = NoError
          /\ Binders(steps[q].heap, steps[q].env, calls[k].fn.body.sym) = {}
          /\ calls[k].val = calls[k].fn
    /\ \E k \in 1..Len(calls) : \E q \in 1..Len(steps) :
          /\ calls[k].frame # 0 /\ MadeAt(q, calls[k].fn)
          /\ calls[k].err = NoError
          /\ Binders(steps[q].heap, steps[q].env, calls[k].fn.body.sym) # {}
          /\ ~Resolves(steps[q].heap, steps[q].env, calls[k].fn.body,
                       calls[k].val, calls[k].err)

---------------------------------------------------------------------------
(* Properties of special forms and applications, checked under SpecApply.  *)

SpecialFormNames == {"quote", "define", "lambda"}

\* TRUE when e is a non-empty list whose head is the symbol quote, define
\* or lambda.
IsSpecialForm(e) ==
    /\ e.t = "List" /\ Len(e.elems) > 0
    /\ e.elems[1].t = "Symbol" /\ e.elems[1].sym \in SpecialFormNames

\* TRUE when val, e and the Envs after are what the special form e yields
\* in env from the Envs before: (quote X) yields X and changes nothing,
\* (lambda (p ...) body) yields the closure of env and changes nothing,
\* (define s c) for a literal c binds s to c in env and yields s.
SpecialFormOutcome(e, env, before, val, er, after) ==
    /\ (e.elems[1].sym = "quote" /\ Len(e.elems) = 2) =>
          val = e.elems[2] /\ er = NoError /\ after = before
    /\ (e.elems[1].sym = "lambda" /\ Len(e.elems) = 3 /\ e.elems[2].t = "List"
          /\ \A k \in 1..Len(e.elems[2].elems) : e.elems[2].elems[k].t = "Symbol") =>
          /\ val = Closure([k \in 1..Len(e.elems[2].elems) |-> e.elems[2].elems[k].sym],
                           e.elems[3], env)
          /\ er = NoError /\ after = before
    /\ IsLiteralDefine(e) =>
          /\ val = e.elems[2] /\ er = NoError
          /\ e.elems[2].sym \in DOMAIN after[env].vars
          /\ after[env].vars[e.elems[2].sym] = e.elems[3]

\* C12: a non-empty list headed by the symbol quote, define or lambda is
\* evaluated as that special form whatever the environment binds the name
\* to: no application is ever entered for such a list, so its head is never
\* handed to Eval or called, and every such top-level expression and every
\* such closure body yields the outcome of the special form.
SpecialFormsReserved ==
    /\ \A k \in 1..Len(steps) :
          /\ steps[k].ev = "apply" => ~IsSpecialForm(steps[k].x)
          /\ (steps[k].ev = "begin" /\ steps[k].k = 1) =>
                ~(steps[k].x.t = "Symbol" /\ steps[k].x.sym \in SpecialFormNames)
          /\ steps[k].ev = "invoke" =>
                ~IsSpecialForm(steps[steps[k].app].x)
    /\ \A k \in 1..Len(trace) :
          IsSpecialForm(exprs[k]) =>
             SpecialFormOutcome(exprs[k], GlobalEnv, trace[k].before,
                                trace[k].val, trace[k].err, trace[k].after)
    /\ \A k \in 1..Len(calls) :
          (calls[k].frame # 0 /\ IsSpecialForm(calls[k].fn.body)) =>
             SpecialFormOutcome(calls[k].fn.body, calls[k].frame, calls[k].bound,
                                calls[k].val, calls[k].err, calls[k].after)

\* A closure whose body is a special form ran in a frame that binds the
\* form's name as a parameter, and another ran in a frame whose parent
\* binds the form's name.
SpecialFormsReservedWitness ==
    /\ \E k \in 1..Len(calls) :
          /\ calls[k].frame # 0
          /\ IsSpecialForm(calls[k].fn.body)
          /\ calls[k].fn.body.elems[1].sym \in DOMAIN calls[k].bound[calls[k].frame].vars
          /\ calls[k].err = NoError
    /\ \E k \in 1..Len(calls) :
          /\ calls[k].frame # 0
          /\ IsSpecialForm(calls[k].fn.body)
          /\ calls[k].fn.body.elems[1].sym \notin DOMAIN calls[k].bound[calls[k].frame].vars
          /\ calls[k].fn.body.elems[1].sym \in DOMAIN calls[k].bound[GlobalEnv].vars
          /\ calls[k].err = NoError

\* The indexes in steps of the entries of application a itself.
StepsOf(a) == {j \in 1..Len(steps) : steps[j].app = a}

\* The rank of entry j among the entries of application a: 1 for "apply".
Rank(a, j) == Cardinality({i \in StepsOf(a) : i <= j})

\* The entry of application a that has rank r.
AtRank(a, r) == steps[CHOOSE j \in StepsOf(a) : Rank(a, j) = r]

\* The bindings that the Envs of after have and those of before lack.
NewBindings(before, after) ==
    {<<f, s>> \in (1..Len(before)) \X Symbols :
        s \in DOMAIN after[f].vars /\ s \notin DOMAIN before[f].vars}

\* C13: in an application the head is handed to Eval first and then the
\* operands one by one from left to right, each only when the one before
\* has returned without error and on the Envs it left; nothing else happens
\* in between; the callable is reached only after the last operand has
\* returned; and what an operand defines is bound while every later operand
\* is evaluated, so that a later operand naming it gets the defined value.
ApplicationOrder ==
    \A a \in 1..Len(steps) :
        steps[a].ev = "apply" =>
          LET n == Len(steps[a].x.elems)
              last == Cardinality(StepsOf(a))
          IN  /\ Rank(a, a) = 1
              /\ last <= 2 * n + 2
              /\ \A j \in StepsOf(a) \ {a} :
                    LET r == Rank(a, j)
                    IN  IF r = 2 * n + 2
                        THEN /\ steps[j].ev = "invoke"
                             /\ steps[j - 1].app = a /\ steps[j - 1].err = NoError
                             /\ steps[j].heap = steps[j - 1].heap
                             /\ steps[j].val = AtRank(a, 3).val
                        ELSE IF r % 2 = 0
                        THEN /\ steps[j].ev = "begin" /\ steps[j].k = r \div 2
                             /\ steps[j].x = steps[a].x.elems[r \div 2]
                             /\ steps[j].env = steps[a].env
                             /\ steps[j - 1].app = a /\ steps[j - 1].err = NoError
                             /\ steps[j].heap = steps[j - 1].heap
                        ELSE /\ steps[j].ev = "end" /\ steps[j].k = (r - 1) \div 2
                             /\ steps[j].x = steps[a].x.elems[(r - 1) \div 2]
              /\ last % 2 = 1 => AtRank(a, last).err # NoError
              /\ \A i \in 2..n : \A m \in (i + 1)..n :
                    ( /\ 2 * m + 1 <= last
                      /\ IsLiteralDefine(steps[a].x.elems[i])
                      /\ steps[a].x.elems[m] = steps[a].x.elems[i].elems[2]
                      /\ \A q \in (i + 1)..(m - 1) : ~ContainsDefine(steps[a].x.elems[q]) )
                    => /\ AtRank(a, 2 * m + 1).err = NoError
                       /\ AtRank(a, 2 * m + 1).val = steps[a].x.elems[i].elems[3]
              /\ \A i \in 2..n : \A m \in (i + 1)..n :
                    2 * m <= last =>
                       NewBindings(AtRank(a, 2 * i).heap, AtRank(a, 2 * i + 1).heap)
                         \subseteq NewBindings(AtRank(a, 2 * i).heap, AtRank(a, 2 * m).heap)

\* An application whose operand defines a name that a later operand reads
\* reached its callable, and another application stopped at an element
\* that failed.
ApplicationOrderWitness ==
    /\ \E a \in 1..Len(steps) :
          /\ steps[a].ev = "apply"
          /\ Cardinality(StepsOf(a)) = 2 * Len(steps[a].x.elems) + 2
          /\ \E i \in 2..Len(steps[a].x.elems) : \E m \in (i + 1)..Len(steps[a].x.elems) :
                /\ IsLiteralDefine(steps[a].x.elems[i])
                /\ steps[a].x.elems[m] = steps[a].x.elems[i].elems[2]
                /\ NewBindings(AtRank(a, 2 * i).heap, AtRank(a, 2 * i + 1).heap) # {}
    /\ \E a \in 1..Len(steps) :
          /\ steps[a].ev = "apply"
          /\ Cardinality(StepsOf(a)) % 2 = 1

---------------------------------------------------------------------------
(* Properties of the parser, checked under SpecPipeline.                   *)

\* The number of lists still open when the parser's tokens of text run out
\* (from position pos with d lists open), or -1 when a right parenthesis
\* closes no list.
RECURSIVE OpenLists(_, _, _)
OpenListsAfter(text, ps, d) ==
    IF ps.curToken.Type = "TokenEOF" THEN d
    ELSE IF ps.curToken.Type = "TokenLParen" THEN OpenLists(text, ps.pos, d + 1)
    ELSE IF ps.curToken.Type = "TokenRParen"
    THEN (IF d = 0 THEN 0 - 1 ELSE OpenLists(text, ps.pos, d - 1))
    ELSE OpenLists(text, ps.pos, d)
OpenLists(text, pos, d) == OpenListsAfter(text, ParserNextToken(text, pos), d)

\* C16: when the input ends while a list is still open, ParseAll returns a
\* non-nil error.
UnclosedListIsError ==
    (mode \in {"parse", "eval"} /\ pdone /\ OpenLists(src, 1, 0) > 0) => perr # NoError

\* The comments of the lexer's tokens of text that stand outside every
\* list, as Comment expressions in source order.
RECURSIVE TopLevelComments(_, _, _)
TopLevelCommentsAfter(text, r, d) ==
    IF r.tok.Type = "TokenEOF" THEN <<>>
    ELSE IF r.tok.Type = "TokenLParen" THEN TopLevelComments(text, r.pos, d + 1)
    ELSE IF r.tok.Type = "TokenRParen"
    THEN TopLevelComments(text, r.pos, IF d = 0 THEN 0 ELSE d - 1)
    ELSE IF r.tok.Type = "TokenComment" /\ d = 0
    THEN <<Comment(Join(r.tok.Literal))>> \o TopLevelComments(text, r.pos, d)
    ELSE TopLevelComments(text, r.pos, d)
TopLevelComments(text, pos, d) == TopLevelCommentsAfter(text, NextToken(text, pos), d)

IsComment(e) == e.t = "Comment"

\* C17: ParseAll returns every top-level line comment of the input as a
\* Comment expression with the raw text, in source order among the other
\* expressions.
CommentsAreParsed ==
    (mode \in {"parse", "eval"} /\ pdone /\ perr = NoError) =>
       SelectSeq(parsed, IsComment) = TopLevelComments(src, 1, 0)

---------------------------------------------------------------------------
(* Properties of the lexers, checked under SpecLexers.                     *)

\* C15: on the hand-written lexer, once NextToken has returned the
\* end-of-input token every later call returns it again.
EOFIsFinal ==
    mode = "lexer" =>
       \A k \in 1..Len(toks) : \A j \in (k + 1)..Len(toks) :
          toks[k].Type = EOF => toks[j].Type = EOF

\* The number of double quotes in a text.
DoubleQuotes(text) == Cardinality({i \in 1..Len(text) : text[i] = "\""})

\* The number of string tokens returned so far, by either lexer.
StringTokens ==
    Cardinality({k \in 1..Len(toks) : toks[k].Type \in {STRING_TOKEN, "TokenString"}})

\* C18: a double quote with no closing double quote before the end of the
\* input never comes back as a string token: there are no more string
\* tokens than pairs of double quotes in the input.
UnterminatedStringIsError ==
    mode \in {"lexer", "scanner"} => 2 * StringTokens <= DoubleQuotes(lx.input)

\* C19: on the scanner-based lexer a character that starts no token never
\* comes back as a token: every Identifier token is made of identifier
\* characters and every number token of digits and the point.
IllegalCharIsError ==
    mode = "scanner" =>
       \A k \in 1..Len(toks) :
          /\ toks[k].Type = "TokenIdentifier" =>
                \A i \in 1..Len(toks[k].Literal) : IsIdentRune(toks[k].Literal[i], i - 1)
          /\ toks[k].Type \in {"TokenInteger", "TokenFloat"} =>
                \A i \in 1..Len(toks[k].Literal) : toks[k].Literal[i] \in Digits \cup {"."}

\* TRUE when text[from..] is one or more digits.
AllDigits(text, from) ==
    from <= Len(text) /\ \A i \in from..Len(text) : text[i] \in Digits

\* TRUE when text[from..] is digits, a point and digits.
DigitsPointDigits(text, from) ==
    \E d \in (from + 1)..(Len(text) - 1) :
        /\ text[d] = "."
        /\ \A i \in from..(d - 1) : text[i] \in Digits
        /\ \A i \in (d + 1)..Len(text) : text[i] \in Digits

\* C20: on the scanner-based lexer the text -d...d is one Integer token,
\* the text -d...d.d...d is one Float token with that literal, and a '-'
\* that no digit follows starts an Identifier.
MinusDigitIsNumber ==
    (mode = "scanner" /\ Len(toks) >= 1 /\ Len(lx.input) >= 1 /\ lx.input[1] = "-") =>
       /\ AllDigits(lx.input, 2) => toks[1] = Token("TokenInteger", lx.input)
       /\ DigitsPointDigits(lx.input, 2) => toks[1] = Token("TokenFloat", lx.input)
       /\ (Len(lx.input) = 1 \/ lx.input[2] \notin Digits) =>
             toks[1].Type = "TokenIdentifier"

\* Where a reader of the lexical rules stands after the first i characters
\* of text: in "code", in a "string" (from a double quote to the closing
\* one) or in a "comment" (from a ';' to the end of the line).
RECURSIVE StateAfter(_, _)
StateAfter(text, i) ==
    IF i = 0 THEN "code"
    ELSE IF StateAfter(text, i - 1) = "code"
    THEN (IF text[i] = "\"" THEN "string"
          ELSE IF text[i] = ";" THEN "comment" ELSE "code")
    ELSE IF StateAfter(text, i - 1) = "string"
    THEN (IF text[i] = "\"" THEN "code" ELSE "string")
    ELSE (IF text[i] = "\n" THEN "code" ELSE "comment")

\* The positions of the character c outside strings and comments.
Outside(text, c) ==
    {i \in 1..Len(text) : text[i] = c /\ StateAfter(text, i - 1) = "code"}

\* The tokens of type t returned so far.
TokensOfType(t) == {k \in 1..Len(toks) : toks[k].Type = t}

\* C21: on the scanner-based lexer, once the end of an input whose strings
\* are all closed is reached, there is exactly one Quote token, with literal
\* ', for each quote character outside strings and comments, and one
\* LParen token for each such left parenthesis: none is dropped, none is
\* synthesized.
QuoteTokenPerQuoteChar ==
    (/\ mode = "scanner" /\ Len(toks) >= 1
     /\ toks[Len(toks)].Type = "TokenEOF"
     /\ StateAfter(lx.input, Len(lx.input)) # "string") =>
       /\ Cardinality(TokensOfType("TokenQuote")) = Cardinality(Outside(lx.input, "'"))
       /\ Cardinality(TokensOfType("TokenLParen")) = Cardinality(Outside(lx.input, "("))
       /\ \A k \in TokensOfType("TokenQuote") : toks[k].Literal = <<"'">>

\* The tokens that NextToken returns from Lexer l before EOF, n calls at
\* most.
RECURSIVE TokensUntilEOF(_, _)

TokensAfter(r, n) ==
    IF r.tok.Type = EOF THEN <<>> ELSE <<r.tok>> \o TokensUntilEOF(r.l, n - 1)

TokensUntilEOF(l, n) == IF n = 0 THEN <<>> ELSE TokensAfter(LexerNextToken(l), n)

\* The position of the parenthesis that closes the list open at depth
\* before text[i], or 0 when the text ends first.
RECURSIVE ListEnd(_, _, _)
ListEnd(text, i, depth) ==
    IF i > Len(text) THEN 0
    ELSE IF text[i] = "(" THEN ListEnd(text, i + 1, depth + 1)
    ELSE IF text[i] = ")"
    THEN (IF depth = 1 THEN i ELSE ListEnd(text, i + 1, depth - 1))
    ELSE ListEnd(text, i + 1, depth)

\* The position of the last character of the symbol that starts at i.
RECURSIVE AtomEnd(_, _)
AtomEnd(text, i) ==
    IF i < Len(text) /\ isSymbolChar(text[i + 1]) THEN AtomEnd(text, i + 1) ELSE i

\* The position of the last character of the datum that follows the quote
\* character text[1], or 0 when no symbol or balanced list of symbols
\* follows it.
DatumEnd(text) ==
    IF Len(text) < 2 THEN 0
    ELSE IF isLetter(text[2]) THEN AtomEnd(text, 2)
    ELSE IF text[2] = "(" THEN ListEnd(text, 3, 1)
    ELSE 0

\* TRUE when text is a quote character and a datum made of symbols,
\* parentheses and blanks.
IsQuotedDatum(text) ==
    /\ Len(text) >= 2 /\ text[1] = "'" /\ DatumEnd(text) > 0
    /\ \A i \in 2..DatumEnd(text) : text[i] \in {"(", ")", " "} \/ isLetter(text[i])

\* The tokens the expansion of the quoted datum at the head of text is to
\* give, then those of the text after the datum.
ExpandedTokens(text) ==
    <<Token(LPAREN, <<"(">>), Token(QUOTE, <<"'">>)>>
    \o TokensUntilEOF(New(SubSeq(text, 2, DatumEnd(text))), MaxInput)
    \o <<Token(RPAREN, <<")">>)>>
    \o TokensUntilEOF(New(SubSeq(text, DatumEnd(text) + 1, Len(text))), 2 * MaxInput)

\* C22: on the hand-written lexer a quote character followed by one datum D
\* comes back as LPAREN, QUOTE, the tokens of D and nothing more, RPAREN,
\* then the tokens of the text after D, and EOF only after all of them.
QuoteExpandsOneDatum ==
    (mode = "lexer" /\ IsQuotedDatum(lx.input)) =>
       \A k \in 1..Len(toks) :
          toks[k] = IF k <= Len(ExpandedTokens(lx.input))
                    THEN ExpandedTokens(lx.input)[k]
                    ELSE Token(EOF, <<>>)

---------------------------------------------------------------------------
(* Properties of closures with several body expressions, checked under     *)
(* SpecBody.                                                               *)

\* The body expressions es[k..] evaluated one after another in env: the
\* outcome of the last one, or of the first that fails.
RECURSIVE SequenceFrom(_, _, _, _)

SequenceAfter(es, k, env, r) ==
    IF r.err # NoError \/ k = Len(es) THEN r ELSE SequenceFrom(es, k + 1, env, r.st)

SequenceFrom(es, k, env, st) == SequenceAfter(es, k, env, Eval(es[k], env, st, 0))

\* The define-shorthand and lambda forms with more than one body
\* expression among the expressions of the program and their elements.
SeveralBodies(e) ==
    /\ e.t = "List" /\ Len(e.elems) > 3
    /\ e.elems[1].t = "Symbol"
    /\ \/ e.elems[1].sym = "lambda" /\ e.elems[2].t = "List"
       \/ e.elems[1].sym = "define" /\ e.elems[2].t = "List" /\ Len(e.elems[2].elems) >= 1

FormsOf(e) == IF e.t = "List" THEN {e} \cup {e.elems[j] : j \in 1..Len(e.elems)} ELSE {e}

SeveralBodiesForms ==
    {e \in UNION {FormsOf(exprs[i]) : i \in 1..Len(exprs)} : SeveralBodies(e)}

\* The parameter list of such a form.
FormParams(e) ==
    IF e.elems[1].sym = "lambda" THEN e.elems[2].elems ELSE Tail(e.elems[2].elems)

\* TRUE when closure fn is what form e makes.
MadeBy(fn, e) ==
    /\ AllSymbols(FormParams(e))
    /\ fn.params = ParamSymbols(FormParams(e))
    /\ fn.body = List(SubSeq(e.elems, 3, Len(e.elems)))

\* C23: a call of a closure made by a define-shorthand or a lambda with
\* more than one body expression evaluates the body expressions one after
\* another in the call frame and returns the value of the last one.
SeveralBodiesInSequence ==
    \A k \in 1..Len(calls) : \A e \in SeveralBodiesForms :
        (calls[k].frame # 0 /\ MadeBy(calls[k].fn, e)) =>
           /\ calls[k].val =
                 SequenceFrom(SubSeq(e.elems, 3, Len(e.elems)), 1, calls[k].frame,
                              Store(calls[k].bound, <<>>, <<>>, <<>>)).val
           /\ calls[k].err =
                 SequenceFrom(SubSeq(e.elems, 3, Len(e.elems)), 1, calls[k].frame,
                              Store(calls[k].bound, <<>>, <<>>, <<>>)).err

---------------------------------------------------------------------------
(* Properties of the lexer that discards comments, checked under           *)
(* SpecLexers.                                                             *)

\* The tokens that lexer returns on text from pos on, before EOF.
RECURSIVE DiscardingTokens(_, _)

DiscardingTokensAfter(text, r) ==
    IF r.tok.Type = "TokenEOF" THEN <<>>
    ELSE <<r.tok>> \o DiscardingTokens(text, r.pos)

DiscardingTokens(text, pos) ==
    DiscardingTokensAfter(text, NextTokenDiscarding(text, pos))

\* C24: on the lexer that discards comments a ';' discards the input up to
\* the end of its line only: once EOF is returned, the tokens returned
\* before it are those of the text without its comments, the tokens of the
\* lines after a comment included, in order.
CommentEndsAtLineEnd ==
    (mode = "discarding" /\ Len(toks) >= 1 /\ toks[Len(toks)].Type = "TokenEOF") =>
       SelectSeq(toks, LAMBDA t : t.Type # "TokenEOF")
          = DiscardingTokens(WithoutComments(lx.input), 1)

---------------------------------------------------------------------------
(* Properties of the environment frames, checked under SpecScope.          *)

\* Every heap the evaluation has gone through, the present one included.
HeapsSeen ==
    {heap}
    \cup {steps[j].heap : j \in 1..Len(steps)}
    \cup UNION {{calls[k].before, calls[k].bound, calls[k].after} : k \in 1..Len(calls)}
    \cup UNION {{defs[k].before, defs[k].after} : k \in 1..Len(defs)}
    \cup UNION {{trace[k].before, trace[k].after} : k \in 1..Len(trace)}

\* The frame reached from env by n steps outward, 0 beyond the root.
RECURSIVE Ancestor(_, _, _)
Ancestor(h, env, n) ==
    IF env = 0 \/ n = 0 THEN env ELSE Ancestor(h, h[env].outer, n - 1)

\* C25: the frames form a forest of finite parent chains.  In every heap
\* the evaluation goes through the global frame has no parent and every
\* other frame has a parent allocated before it; a frame keeps its parent
\* from its creation on; every chain reaches the root within as many steps
\* as there are frames, so no chain has a cycle; and the frame of a call
\* hangs below the closure's environment, which existed before it.
EnvForest ==
    /\ \A h \in HeapsSeen :
          /\ Len(h) <= Len(heap)
          /\ Len(h) >= 1 => h[1].outer = 0
          /\ \A i \in 2..Len(h) : h[i].outer \in 1..(i - 1)
          /\ \A i \in 1..Len(h) : heap[i].outer = h[i].outer
          /\ \A i \in 1..Len(h) : Ancestor(h, i, Len(h)) = 0
    /\ \A k \in 1..Len(calls) :
          calls[k].frame # 0 =>
             /\ calls[k].frame = Len(calls[k].before) + 1
             /\ calls[k].fn.env \in 1..Len(calls[k].before)
             /\ heap[calls[k].frame].outer = calls[k].fn.env

\* A closure stored in the global frame captures the global frame, it was
\* called, and a symbol looked up in its call frame was found by walking
\* outward to the frame that holds the closure.
EnvForestWitness ==
    /\ Len(heap) >= 3
    /\ \E k \in 1..Len(calls) : \E j \in 1..Len(steps) :
          /\ calls[k].frame # 0
          /\ calls[k].fn.env = GlobalEnv
          /\ \E sym \in DOMAIN heap[GlobalEnv].vars :
                heap[GlobalEnv].vars[sym] = calls[k].fn
          /\ steps[j].ev = "get" /\ steps[j].env = calls[k].frame
          /\ steps[j].err = NoError
          /\ steps[j].x.sym \notin DOMAIN steps[j].heap[steps[j].env].vars

\* The parameters of the closure of call c, as a set.
ParamsOf(c) == {c.fn.params[j] : j \in 1..Len(c.fn.params)}

\* C26: binding the parameters of a closure call touches the fresh call
\* frame only.  Every frame that existed before the call, the closure's
\* environment and the caller's included, is the same after the binding
\* loop, the call frame binds exactly the parameters to the arguments, and
\* when the call has returned a binding of a parameter's name in the
\* closure's or the caller's environment still has its previous value.
BindingTouchesCallFrameOnly ==
    \A k \in 1..Len(calls) :
        calls[k].frame # 0 =>
           /\ \A i \in 1..Len(calls[k].before) : calls[k].bound[i] = calls[k].before[i]
           /\ DOMAIN calls[k].bound[calls[k].frame].vars = ParamsOf(calls[k])
           /\ \A j \in 1..Len(calls[k].fn.params) :
                 (\A i \in (j + 1)..Len(calls[k].fn.params) :
                     calls[k].fn.params[i] # calls[k].fn.params[j]) =>
                    calls[k].bound[calls[k].frame].vars[calls[k].fn.params[j]]
                       = calls[k].args[j]
           /\ \A env \in {calls[k].fn.env, calls[k].caller} :
                 \A sym \in ParamsOf(calls[k]) \cap DOMAIN calls[k].before[env].vars :
                    /\ sym \in DOMAIN calls[k].after[env].vars
                    /\ calls[k].after[env].vars[sym] = calls[k].before[env].vars[sym]
                    /\ sym \in DOMAIN heap[env].vars

\* A closure with parameter x was called with an argument other than the
\* value the global frame binds x to, and a later top-level x still
\* evaluated to the global value.
BindingTouchesCallFrameOnlyWitness ==
    \E k \in 1..Len(calls) : \E i \in 1..Len(trace) :
        /\ calls[k].frame # 0
        /\ "x" \in ParamsOf(calls[k])
        /\ "x" \in DOMAIN calls[k].before[GlobalEnv].vars
        /\ calls[k].bound[calls[k].frame].vars["x"] # calls[k].before[GlobalEnv].vars["x"]
        /\ exprs[i] = RefX
        /\ Len(trace[i].before) >= calls[k].frame
        /\ trace[i].val = calls[k].before[GlobalEnv].vars["x"]

---------------------------------------------------------------------------
(* Properties of defines that fail, checked under SpecDefine.              *)

\* One evaluation of a form in env: the heaps before and after it and the
\* error it returned.
Run(form, env, before, after, e) ==
    [form |-> form, env |-> env, before |-> before, after |-> after, err |-> e]

\* The evaluations on record: of the top-level expressions, of the
\* elements of applications and of the bodies of called closures.
Runs ==
    {Run(exprs[k], GlobalEnv, trace[k].before, trace[k].after, trace[k].err) :
        k \in 1..Len(trace)}
    \cup {Run(steps[j].x, steps[j].env, steps[b].heap, steps[j].heap, steps[j].err) :
            <<b, j>> \in {bj \in (1..Len(steps)) \X (1..Len(steps)) :
                             /\ steps[bj[1]].ev = "begin" /\ steps[bj[2]].ev = "end"
                             /\ steps[bj[1]].app = steps[bj[2]].app
                             /\ steps[bj[1]].k = steps[bj[2]].k}}
    \cup {Run(calls[k].fn.body, calls[k].frame, calls[k].bound, calls[k].after,
              calls[k].err) : k \in {i \in 1..Len(calls) : calls[i].frame # 0}}

\* The evaluations of define forms that returned an error.
FailedDefines ==
    {r \in Runs : /\ r.form.t = "List" /\ Len(r.form.elems) >= 1
                  /\ r.form.elems[1] = Symbol("define")
                  /\ r.err # NoError}

\* TRUE when the define form is rejected for its arity or shape.
RejectedShape(exp) ==
    \/ Len(exp) < 3
    \/ exp[2].t = "List" /\ (Len(exp[2].elems) = 0 \/ ~AllSymbols(exp[2].elems))
    \/ exp[2].t \notin {"List", "Symbol"}

\* What frame env of heap h binds sym to, if anything.
BindingOf(h, env, sym) ==
    IF sym \in DOMAIN h[env].vars THEN [bound |-> TRUE, val |-> h[env].vars[sym]]
    ELSE [bound |-> FALSE, val |-> Nil]

\* TRUE when the failed define r left its frame as the claim says: a
\* rejected form leaves every Env as it was, a value expression that fails
\* leaves the binding of the name as it was.
BindingKept(r) ==
    IF RejectedShape(r.form.elems) THEN r.after = r.before
    ELSE BindingOf(r.after, r.env, r.form.elems[2].sym)
            = BindingOf(r.before, r.env, r.form.elems[2].sym)

\* C27 as stated: whenever a define fails, for its value expression or for
\* its arity or shape, the binding of the name in the current frame is
\* exactly what it was before the define.
FailedDefineKeepsBinding == \A r \in FailedDefines : BindingKept(r)

\* C27 amended: a define that fails sets nothing itself.  A rejected form
\* leaves every Env as it was, and when the value expression fails the
\* binding of the name in the current frame is what it was before, unless
\* the value expression contains a define form of its own, whose bindings
\* stay.
FailedDefineSetsNothing ==
    \A r \in FailedDefines :
        (RejectedShape(r.form.elems) \/ ~ContainsDefine(r.form.elems[3])) => BindingKept(r)

\* A define of x failed on its value expression in a frame that bound x
\* already, and x is still bound to that value.
FailedDefineSetsNothingWitness ==
    \E r \in FailedDefines :
        /\ ~RejectedShape(r.form.elems)
        /\ ~ContainsDefine(r.form.elems[3])
        /\ BindingOf(r.before, r.env, r.form.elems[2].sym).bound
        /\ heap[r.env].vars[r.form.elems[2].sym]
              = r.before[r.env].vars[r.form.elems[2].sym]

---------------------------------------------------------------------------
(* Properties of applications of values that are not functions, checked    *)
(* under SpecNotFunction.                                                  *)

\* The "apply" entries of the top-level application exprs[k].
ApplyEntries(k) ==
    {a \in 1..Len(steps) : /\ steps[a].ev = "apply" /\ steps[a].x = exprs[k]
                           /\ steps[a].env = GlobalEnv
                           /\ steps[a].heap = trace[k].before}

\* The "end" entries of element k of application a.
Ends(a, k) ==
    {j \in 1..Len(steps) : steps[j].ev = "end" /\ steps[j].app = a /\ steps[j].k = k}

\* TRUE when the head of application a evaluated, without error, to a
\* value that is neither a Builtin nor a Closure.
HeadNotCallable(a) ==
    \E j \in Ends(a, 1) :
        steps[j].err = NoError /\ steps[j].val.t \notin {"Builtin", "Closure"}

\* The operands of application a whose evaluation returned an error.
FailedOperands(a) ==
    {k \in 2..Len(steps[a].x.elems) : \E j \in Ends(a, k) : steps[j].err # NoError}

\* C28: when the head of an application evaluates to a value that is
\* neither a Builtin nor a Closure, the operands are evaluated all the
\* same.  If one of them fails, its error is what the application returns;
\* otherwise every operand has been evaluated, the error is 'not a
\* function' naming the head's value, and the Envs are as the last operand
\* left them, the bindings defined by the operands included.
NotFunctionAfterOperands ==
    \A k \in 1..Len(trace) : \A a \in ApplyEntries(k) :
        HeadNotCallable(a) =>
           IF FailedOperands(a) # {}
           THEN \A i \in FailedOperands(a) : \A j \in Ends(a, i) :
                   /\ trace[k].err = steps[j].err
                   /\ trace[k].after = steps[j].heap
           ELSE /\ \A i \in 2..Len(exprs[k].elems) :
                      \E j \in Ends(a, i) : steps[j].x = exprs[k].elems[i]
                /\ \E j \in Ends(a, 1) :
                      trace[k].err = Errorf("not a function: %v", <<steps[j].val>>)
                /\ \A j \in Ends(a, Len(exprs[k].elems)) : trace[k].after = steps[j].heap
                /\ \A d \in 1..Len(defs) :
                      (defs[d].before \in {steps[j].heap : j \in a..Len(steps)}
                         /\ defs[d].env = GlobalEnv /\ Len(trace) = k) =>
                         defs[d].sym \in DOMAIN heap[GlobalEnv].vars

\* An application of an Integer failed with 'not a function' after its
\* operand had defined y, which is bound in the global frame afterwards
\* and was not before.
NotFunctionAfterOperandsWitness ==
    \E k \in 1..Len(trace) : \E a \in ApplyEntries(k) :
        /\ HeadNotCallable(a)
        /\ FailedOperands(a) = {}
        /\ trace[k].err.fmt = "not a function: %v"
        /\ "y" \notin DOMAIN trace[k].before[GlobalEnv].vars
        /\ "y" \in DOMAIN heap[GlobalEnv].vars
        /\ returned

---------------------------------------------------------------------------
(* Progress of the hand-written lexer, checked under SpecProgress.         *)

\* A NextToken call that is not served from the pending queue and does not
\* return EOF moves the read position forward.
ProgressStep ==
    (/\ mode = "lexer"
     /\ lx.pending = <<>>
     /\ Len(toks') = Len(toks) + 1
     /\ toks'[Len(toks')].Type # EOF) => lx'.readPos > lx.readPos

\* C29: the hand-written lexer makes progress on every input.  Each
\* NextToken call that is not served from the pending queue and does not
\* return EOF advances the read position by at least one character; every
\* call returns, the scanning nested in a quote expansion included, since
\* one step of the model is one whole call; and a caller that keeps calling
\* gets EOF after finitely many calls.
LexerMakesProgress == [][ProgressStep]_vars /\ <>EOFReturned

\* EOF was returned for an input with a quote character and an illegal
\* character, after a token of each.
LexerMakesProgressWitness ==
    /\ mode = "lexer"
    /\ Len(toks) >= 3
    /\ toks[Len(toks)].Type = EOF
    /\ \E k \in 1..Len(toks) : toks[k].Type = QUOTE
    /\ \E k \in 1..Len(toks) : toks[k].Type = ILLEGAL
    /\ \E i \in 1..Len(lx.input) : lx.input[i] = ","


---------------------------------------------------------------------------
(* Sums and products of Integer operands as integers of mathematics,       *)
(* checked under SpecIntegers.                                             *)

RECURSIVE SumOf(_, _)
SumOf(as, k) ==
    IF k > Len(as) THEN Z(FALSE, <<0>>)
    ELSE ZAdd(ZOfInt64(as[k].i), SumOf(as, k + 1))

RECURSIVE ProductOf(_, _)
ProductOf(as, k) ==
    IF k > Len(as) THEN Z(FALSE, <<1>>)
    ELSE ZMul(ZOfInt64(as[k].i), ProductOf(as, k + 1))

\* C30: when every operand is an Integer, + and * return without error an
\* Integer, and it is the sum or the product of the operands as integers of
\* mathematics reduced modulo 2^64 into -2^63 .. 2^63-1, also when that sum
\* or product lies outside the int64 range.
IntegersWrapAround ==
    (mode = "arith" /\ out.op # "" /\ AllIntegers(args)) =>
        /\ out.err = NoError
        /\ out.val.t = "Integer"
        /\ out.op = "+" => out.val.i = WrapToInt64(SumOf(args, 1))
        /\ out.op = "*" => out.val.i = WrapToInt64(ProductOf(args, 1))

\* * has returned for Integer operands whose product lies outside the int64
\* range.
IntegersWrapAroundWitness ==
    /\ mode = "arith" /\ out.op = "*" /\ Len(args) >= 2 /\ AllIntegers(args)
    /\ ~InInt64Range(ProductOf(args, 1))
    /\ out.err = NoError /\ out.val.t = "Integer"

====
